---------------------------- MODULE Spec2Model ----------------------------
(***************************************************************************)
(* A model of hsp3-ginger:                                                 *)
(*   - the document store of hsp3-analyzer-mini (ham-core/src/docs.rs):    *)
(*     editor open/change/close, directory scan, the file watcher's        *)
(*     channel and poll(), and the queue of DocChange events;              *)
(*   - the preprocessor analysis (ham-core/src/analysis/preproc.rs): the   *)
(*     walk over a statement tree that allocates module and deffunc ids;   *)
(*   - the comment extractor (analysis/comment.rs) and the completion and  *)
(*     definitions assists (assists/), as functions of their requests;     *)
(*   - the argument parser of hsp3-forgery (parse/parse_expr.rs), step by  *)
(*     step.                                                               *)
(***************************************************************************)
EXTENDS Integers, Sequences, FiniteSets, TLC

(***************************************************************************)
(* Bounds of the model.                                                    *)
(***************************************************************************)
\* events the watcher's channel holds before the consuming thread polls
MaxChan == 2
\* DocIds the store allocates in one run
MaxDoc == 2
\* DocChanges pending in the store (and in the caller's vector)
MaxQueue == 3

(***************************************************************************)
(* Program constants.                                                      *)
(***************************************************************************)
\* docs.rs:18
NO_VERSION == 1

(***************************************************************************)
(* The file system the store looks at.  Paths below the current directory  *)
(* (what glob and the watcher report), and one more spelling of a.hsp that *)
(* reaches the same file through a symbolic link outside the watched tree  *)
(* (what an editor may send).                                              *)
(***************************************************************************)
PathA == "/w/a.hsp"
PathC == "/w/c.as"
PathD == "/w/d.txt"
PathLinkA == "/l/a.hsp"

\* the files of the watched tree, in the order glob yields them (sorted)
TreePaths == <<PathA, PathC, PathD>>
TreePathSet == {TreePaths[i] : i \in DOMAIN TreePaths}
AllPaths == TreePathSet \cup {PathLinkA}

\* Path::extension
extension(path) ==
    CASE path \in {PathA, PathLinkA} -> "hsp"
      [] path = PathC -> "as"
      [] OTHER -> "txt"

\* the file a path names once symbolic links are resolved
RealPath(path) == IF path = PathLinkA THEN PathA ELSE path

\* What a file holds when the store reads it:
\*   absent: no such file (fs::read fails, canonicalize fails, glob skips it)
\*   sjis:   bytes that decode as code page 932
\*   utf8:   bytes that do not decode as code page 932 but are valid UTF-8
\*   bad:    bytes that decode as neither
FileContents == {"absent", "sjis", "utf8", "bad"}

\* the views of the file system in which only the paths of P may exist
FsViews(P) ==
    {[p \in TreePathSet |-> IF p \in P THEN f[p] ELSE "absent"] : f \in [P -> FileContents]}

(***************************************************************************)
(* Url::from_file_path / Url::to_file_path: a file URL is the scheme and   *)
(* the absolute path.                                                      *)
(***************************************************************************)
from_file_path(path) == <<"file", path>>
to_file_path(uri) == uri[2]

\* docs.rs:333  canonicalize_uri: the URL of the canonical path, or the URL
\* as given when the path cannot be canonicalized (the file does not exist)
canonicalize_uri(uri, fs) ==
    LET path == to_file_path(uri)
    IN  IF fs[RealPath(path)] # "absent" THEN from_file_path(RealPath(path)) ELSE uri

\* docs.rs:341  file_ext_is_watched
file_ext_is_watched(path) == extension(path) = "hsp" \/ extension(path) = "as"

\* docs.rs:347  read_file.  decode_to appends what it decoded to `out` until
\* the first invalid byte, so a failed code page 932 pass leaves its partial
\* output in front of what the UTF-8 pass appends.
read_file(content) ==
    CASE content = "absent" -> [ok |-> FALSE, text |-> "empty"]
      [] content = "sjis" -> [ok |-> TRUE, text |-> "disk"]
      [] content = "utf8" -> [ok |-> TRUE, text |-> "partial+disk"]
      [] OTHER -> [ok |-> FALSE, text |-> "partial"]

\* texts that come from a file, and among them what a failed read leaves
DiskTexts == {"disk", "partial+disk", "empty", "partial"}
FailedReadTexts == {"empty", "partial"}
\* what the editor sends
EditorTexts == {"edit"}
EditorVersions == {2}
EditorUris == {from_file_path(PathLinkA)}

(***************************************************************************)
(* State.                                                                  *)
(***************************************************************************)
VARIABLES
    \* struct Docs (docs.rs:28)
    last_doc, doc_to_uri, uri_to_doc, open_docs, doc_versions,
    file_watcher, file_event_rx, doc_changes,
    \* the mpsc channel between the watcher thread and the store, and whether
    \* its sender (held by the watcher thread) is alive
    chan, tx_alive,
    \* the caller's vector that drain_doc_changes extends
    changes,
    \* "new" until did_initialize has run, then "running"
    phase,
    \* history: the DocIds handed out so far, in order, each with the URI
    \* resolve_uri allocated it for (NoUri for a bare fresh_doc)
    issued,
    \* the documents the editor has opened and not yet closed: the URI as the
    \* editor spells it and the canonical URI open_doc registered it under
    editor_open,
    \* the last step taken: the operation, its arguments and, for a step that
    \* polls, the events the poll received
    call,
    \* the statement tree the parser made of the analysed document's text
    root,
    \* the PreprocAnalysisResult of the document's latest analysis and the one
    \* it replaced (None before there is one)
    analysis, previous,
    \* a request to the comment extractor or to an assist (what the function
    \* is given and what its collaborators answer) and the function's result;
    \* for the argument parser, the token sequence and the parse in progress
    input, output

docsVars == <<last_doc, doc_to_uri, uri_to_doc, open_docs, doc_versions,
              file_watcher, file_event_rx, doc_changes, issued>>
tableVars == <<last_doc, doc_to_uri, uri_to_doc, open_docs, doc_versions, doc_changes>>
preprocVars == <<root, analysis, previous>>
assistVars == <<input, output>>

\* Option<T>: None, Some(x)
None == <<>>
Some(x) == <<x>>

\* the store as one value, for the operators that model &mut self methods
Self ==
    [last_doc |-> last_doc, doc_to_uri |-> doc_to_uri, uri_to_doc |-> uri_to_doc,
     open_docs |-> open_docs, doc_versions |-> doc_versions,
     file_watcher |-> file_watcher, file_event_rx |-> file_event_rx,
     doc_changes |-> doc_changes, issued |-> issued]

Store(s) ==
    /\ last_doc' = s.last_doc
    /\ doc_to_uri' = s.doc_to_uri
    /\ uri_to_doc' = s.uri_to_doc
    /\ open_docs' = s.open_docs
    /\ doc_versions' = s.doc_versions
    /\ file_watcher' = s.file_watcher
    /\ file_event_rx' = s.file_event_rx
    /\ doc_changes' = s.doc_changes
    /\ issued' = s.issued

\* HashMap::insert, HashMap::remove
Insert(map, k, v) == [x \in DOMAIN map \cup {k} |-> IF x = k THEN v ELSE map[x]]
Remove(map, k) == [x \in DOMAIN map \ {k} |-> map[x]]
EmptyMap == [x \in {} |-> 0]

\* enum DocChange (docs.rs:20)
Opened(doc, text) == [kind |-> "Opened", doc |-> doc, text |-> text]
Changed(doc, text) == [kind |-> "Changed", doc |-> doc, text |-> text]
Closed(doc) == [kind |-> "Closed", doc |-> doc, text |-> "none"]

(***************************************************************************)
(* The methods of Docs, as functions from the store to the store.          *)
(***************************************************************************)
NoUri == <<"none", "none">>

\* fresh_doc as it would be if the id were derived from the number of live
\* documents instead of a counter that only grows
fresh_doc_recycling(s) ==
    LET doc == Cardinality(DOMAIN s.doc_to_uri) + 1
    IN  [s EXCEPT !.last_doc = doc,
                  !.issued = Append(s.issued, [doc |-> doc, uri |-> NoUri])]

\* docs.rs:56
fresh_doc(s) ==
    [s EXCEPT !.last_doc = s.last_doc + 1,
              !.issued = Append(s.issued, [doc |-> s.last_doc + 1, uri |-> NoUri])]

\* docs.rs:61  the store after the call, and the DocId returned
resolve_uri(s, uri) ==
    IF uri \in DOMAIN s.uri_to_doc
    THEN [s |-> s, doc |-> s.uri_to_doc[uri]]
    ELSE LET t == fresh_doc(s)
             doc == t.last_doc
         IN  [s |-> [t EXCEPT !.doc_to_uri = Insert(t.doc_to_uri, doc, uri),
                              !.uri_to_doc = Insert(t.uri_to_doc, uri, doc),
                              !.issued[Len(t.issued)].uri = uri],
              doc |-> doc]

\* docs.rs:236
do_open_doc(s, uri, version, text) ==
    LET r == resolve_uri(s, uri)
    IN  [r.s EXCEPT !.doc_versions = Insert(r.s.doc_versions, r.doc, version),
                    !.doc_changes = Append(r.s.doc_changes, Opened(r.doc, text))]

\* docs.rs:245
do_change_doc(s, uri, version, text) ==
    LET r == resolve_uri(s, uri)
    IN  [r.s EXCEPT !.doc_versions = Insert(r.s.doc_versions, r.doc, version),
                    !.doc_changes = Append(r.s.doc_changes, Changed(r.doc, text))]

\* do_close_doc as it would be if it dropped the URI's entry only
do_close_doc_one_sided(s, uri) ==
    LET s1 == IF uri \in DOMAIN s.uri_to_doc
              THEN [s EXCEPT !.doc_changes = Append(s.doc_changes, Closed(s.uri_to_doc[uri]))]
              ELSE s
    IN  [s1 EXCEPT !.uri_to_doc = Remove(s1.uri_to_doc, uri)]

\* docs.rs:251
do_close_doc(s, uri) ==
    LET s1 == IF uri \in DOMAIN s.uri_to_doc
              THEN LET doc == s.uri_to_doc[uri]
                   IN  [s EXCEPT !.doc_to_uri = Remove(s.doc_to_uri, doc),
                                 !.doc_changes = Append(s.doc_changes, Closed(doc))]
              ELSE s
    IN  [s1 EXCEPT !.uri_to_doc = Remove(s1.uri_to_doc, uri)]

\* docs.rs:290
change_file(s, path, fs) ==
    LET uri == canonicalize_uri(from_file_path(path), fs)
        is_open == uri \in DOMAIN s.uri_to_doc /\ s.uri_to_doc[uri] \in s.open_docs
        read == read_file(fs[RealPath(path)])
    IN  IF is_open THEN s
        ELSE do_change_doc(s, uri, NO_VERSION, read.text)

\* docs.rs:320
close_file(s, path, fs) ==
    do_close_doc(s, canonicalize_uri(from_file_path(path), fs))

\* glob::glob("{cwd}/**/*.hsp"): the existing files with the primary
\* extension, in sorted order
glob_entries(fs) ==
    SelectSeq(TreePaths, LAMBDA p : extension(p) = "hsp" /\ fs[p] # "absent")

RECURSIVE change_files(_, _, _)
\* the loops `for path in ... { self.change_file(&path) }` (docs.rs:115, 209)
change_files(s, paths, fs) ==
    IF paths = <<>> THEN s
    ELSE change_files(change_file(s, Head(paths), fs), Tail(paths), fs)

RECURSIVE close_files(_, _, _)
\* the loop `for path in removed_paths { self.close_file(&path) }` (docs.rs:216)
close_files(s, paths, fs) ==
    IF paths = <<>> THEN s
    ELSE close_files(close_file(s, Head(paths), fs), Tail(paths), fs)

\* docs.rs:98  cwd_ok: whether std::env::current_dir succeeded
scan_files(s, cwd_ok, fs) ==
    IF ~cwd_ok THEN s ELSE change_files(s, glob_entries(fs), fs)

\* docs.rs:226
shutdown_file_watcher(s) ==
    [s EXCEPT !.file_watcher = FALSE, !.file_event_rx = FALSE]

(***************************************************************************)
(* Watcher events (notify::DebouncedEvent).                                *)
(***************************************************************************)
Create(path) == [kind |-> "Create", path |-> path, dest |-> "none"]
Write(path) == [kind |-> "Write", path |-> path, dest |-> "none"]
RemoveEv(path) == [kind |-> "Remove", path |-> path, dest |-> "none"]
Rename(src, dest) == [kind |-> "Rename", path |-> src, dest |-> dest]
Rescan == [kind |-> "Rescan", path |-> "none", dest |-> "none"]

\* the events the watcher reports in a run; Create(PathD) is one that the
\* guards of the first arms refuse and the `Ok(ev)` arm skips
WatcherEvents ==
    {Create(PathA), Write(PathA), RemoveEv(PathA), Rename(PathA, PathC), Create(PathD), Rescan}

Events(batch) == {batch[i] : i \in DOMAIN batch}

\* the three accumulators of the receive loop (docs.rs:163-204)
rescan_of(batch) == \E e \in Events(batch) : e.kind = "Rescan"

updated_paths_of(batch) ==
    {e.path : e \in {x \in Events(batch) : x.kind \in {"Create", "Write"} /\ file_ext_is_watched(x.path)}}
    \cup {e.dest : e \in {x \in Events(batch) : x.kind = "Rename" /\ file_ext_is_watched(x.dest)}}

removed_paths_of(batch) ==
    {e.path : e \in {x \in Events(batch) : x.kind \in {"Remove", "Rename"} /\ file_ext_is_watched(x.path)}}

\* the orders in which a HashSet may be iterated
Orders(S) == {q \in [1..Cardinality(S) -> S] : \A x \in S : \E i \in DOMAIN q : q[i] = x}

\* poll as it would be if updated_paths were a Vec: one change_file per
\* Create, Write or Rename event instead of one per path
poll_per_event(s, batch, disconnected, updated, removed, cwd_ok, fs) ==
    IF ~s.file_event_rx THEN s
    ELSE LET hits == SelectSeq(batch, LAMBDA e :
                         \/ e.kind \in {"Create", "Write"} /\ file_ext_is_watched(e.path)
                         \/ e.kind = "Rename" /\ file_ext_is_watched(e.dest))
             each == [i \in DOMAIN hits |-> IF hits[i].kind = "Rename" THEN hits[i].dest ELSE hits[i].path]
             kept == SelectSeq(each, LAMBDA p : p \notin removed_paths_of(batch))
             s1 == IF rescan_of(batch)
                   THEN scan_files(s, cwd_ok, fs)
                   ELSE close_files(change_files(s, kept, fs), removed, fs)
         IN  IF disconnected THEN shutdown_file_watcher(s1) ELSE s1

\* poll as it would be if a disconnected channel ended it at once, before the
\* events received are applied
poll_dropping_batch(s, batch, disconnected, updated, removed, cwd_ok, fs) ==
    IF ~s.file_event_rx THEN s
    ELSE IF disconnected THEN shutdown_file_watcher(s)
    ELSE LET kept == SelectSeq(updated, LAMBDA p : p \notin removed_paths_of(batch))
         IN  IF rescan_of(batch)
             THEN scan_files(s, cwd_ok, fs)
             ELSE close_files(change_files(s, kept, fs), removed, fs)

\* poll as it would be if a Rescan added the scan to the per-path events
\* instead of replacing them
poll_scanning_as_well(s, batch, disconnected, updated, removed, cwd_ok, fs) ==
    IF ~s.file_event_rx THEN s
    ELSE LET kept == SelectSeq(updated, LAMBDA p : p \notin removed_paths_of(batch))
             s0 == IF rescan_of(batch) THEN scan_files(s, cwd_ok, fs) ELSE s
             s1 == close_files(change_files(s0, kept, fs), removed, fs)
         IN  IF disconnected THEN shutdown_file_watcher(s1) ELSE s1

\* docs.rs:155  poll, on the events `batch` that try_recv hands over before it
\* reports Empty or (disconnected) Disconnected; updated and removed are the
\* iteration orders of the two HashSets
poll(s, batch, disconnected, updated, removed, cwd_ok, fs) ==
    IF ~s.file_event_rx THEN s
    ELSE LET kept == SelectSeq(updated, LAMBDA p : p \notin removed_paths_of(batch))
             s1 == IF rescan_of(batch)
                   THEN scan_files(s, cwd_ok, fs)
                   ELSE close_files(change_files(s, kept, fs), removed, fs)
         IN  IF disconnected THEN shutdown_file_watcher(s1) ELSE s1

\* docs.rs:260, without the poll that ends it
open_doc(s, uri0, version, text, fs) ==
    LET uri == canonicalize_uri(uri0, fs)
        s1 == do_open_doc(s, uri, version, text)
    IN  IF uri \in DOMAIN s1.uri_to_doc
        THEN [s1 EXCEPT !.open_docs = s1.open_docs \cup {s1.uri_to_doc[uri]}]
        ELSE s1

\* docs.rs:272, without the poll that ends it
change_doc(s, uri0, version, text, fs) ==
    do_change_doc(s, canonicalize_uri(uri0, fs), version, text)

\* docs.rs:280, without the poll that ends it
close_doc(s, uri0, fs) ==
    LET uri == canonicalize_uri(uri0, fs)
    IN  IF uri \in DOMAIN s.uri_to_doc
        THEN [s EXCEPT !.open_docs = s.open_docs \ {s.uri_to_doc[uri]}]
        ELSE s

\* drain_doc_changes as it would be if it copied the queue without draining it
drain_doc_changes_copying(s, out) ==
    [s |-> s, changes |-> out \o s.doc_changes]

\* docs.rs:85
drain_doc_changes(s, out) ==
    [s |-> [s EXCEPT !.doc_changes = <<>>], changes |-> out \o s.doc_changes]


(***************************************************************************)
(* The steps of the system.                                                *)
(***************************************************************************)
Call(op, uri, version, batch) == [op |-> op, uri |-> uri, version |-> version, batch |-> batch]

\* the operations that end with self.poll(), and poll itself
PollingOps == {"open_doc", "change_doc", "close_doc", "poll"}
EditorOps == {"open_doc", "change_doc", "close_doc"}
WatcherOps == {"watcher_send", "watcher_exit"}

\* the files a poll of `batch` reads (close_file reads none: a path of the
\* watched tree is its own canonical form, whether the file exists or not)
paths_read(batch) ==
    IF rescan_of(batch) THEN {PathA}
    ELSE updated_paths_of(batch) \ removed_paths_of(batch)

\* Docs::new and what surrounds the store
DocsInit ==
    /\ last_doc = 0
    /\ doc_to_uri = EmptyMap
    /\ uri_to_doc = EmptyMap
    /\ open_docs = {}
    /\ doc_versions = EmptyMap
    /\ file_watcher = FALSE
    /\ file_event_rx = FALSE
    /\ doc_changes = <<>>
    /\ issued = <<>>
    /\ chan = <<>>
    /\ tx_alive = FALSE
    /\ changes = <<>>
    /\ phase = "new"
    /\ editor_open = {}
    /\ call = Call("new", NoUri, 0, <<>>)

Init ==
    /\ DocsInit
    /\ root = <<>>
    /\ analysis = None
    /\ previous = None
    /\ input = None
    /\ output = None

\* what bounds a run: the ids allocated and the DocChanges pending
WithinBounds(s) == s.last_doc <= MaxDoc /\ Len(s.doc_changes) <= MaxQueue

\* What surrounds the store in a run: the URIs the editor works on, the
\* events the watcher reports, and whether the caller drains and processes
\* the pending DocChanges after every call before it makes the next one
\* (eager), or lets them pile up in the queue and in its vector.
MainEnv == [uris |-> EditorUris, events |-> WatcherEvents, eager |-> TRUE]
QueueEnv == [uris |-> {from_file_path(PathA)}, events |-> {RemoveEv(PathA)}, eager |-> FALSE]

\* An eager caller has drained the queue before its next call, and the
\* vector it drained into, a local of the handler that drained, is gone.
Ready(env) == env.eager => doc_changes = <<>>
Handled(env) == changes' = IF env.eager THEN <<>> ELSE changes

\* the end of an editor call as it would be if the call returned without
\* polling the channel
EndWithoutPoll(s, op, uri, version, fs, cwd_ok) ==
    /\ WithinBounds(s)
    /\ Store(s)
    /\ UNCHANGED <<chan, tx_alive>>
    /\ call' = Call(op, uri, version, <<>>)

\* the store after `s` polls the channel; the receiver is emptied, and dropped
\* with the watcher when the sender is found gone
EndWithPoll(s, op, uri, version, fs, cwd_ok) ==
    LET batch == IF s.file_event_rx THEN chan ELSE <<>>
    IN  \E updated \in Orders(updated_paths_of(batch)), removed \in Orders(removed_paths_of(batch)) :
            LET r == poll(s, batch, ~tx_alive, updated, removed, cwd_ok, fs)
            IN  /\ WithinBounds(r)
                /\ Store(r)
                /\ chan' = <<>>
                /\ tx_alive' = (tx_alive /\ r.file_event_rx)
                /\ call' = Call(op, uri, version, batch)

CwdResults(batch) == IF rescan_of(batch) THEN BOOLEAN ELSE {TRUE}

\* docs.rs:89  did_initialize: the first scan, then the watcher is started
\* (watcher_ok: whether start_file_watcher returned Some)
DidInitialize ==
    /\ phase = "new"
    /\ \E cwd_ok \in BOOLEAN, watcher_ok \in BOOLEAN, fs \in FsViews({PathA}) :
           LET s1 == scan_files(Self, cwd_ok, fs)
               s2 == IF watcher_ok
                     THEN [s1 EXCEPT !.file_watcher = TRUE, !.file_event_rx = TRUE]
                     ELSE s1
           IN  /\ WithinBounds(s2)
               /\ Store(s2)
               /\ tx_alive' = watcher_ok
    /\ chan' = <<>>
    /\ phase' = "running"
    /\ call' = Call("did_initialize", NoUri, 0, <<>>)
    /\ UNCHANGED <<changes, editor_open>>
    /\ UNCHANGED <<preprocVars, assistVars>>

\* docs.rs:260  textDocument/didOpen
OpenDoc(env) ==
    /\ phase = "running" /\ Ready(env)
    /\ \E uri0 \in env.uris \ {e.raw : e \in editor_open}, version \in EditorVersions, text \in EditorTexts :
       \E cwd_ok \in CwdResults(chan), fs \in FsViews(paths_read(chan) \cup {RealPath(to_file_path(uri0))}) :
           /\ EndWithPoll(open_doc(Self, uri0, version, text, fs), "open_doc", canonicalize_uri(uri0, fs), version, fs, cwd_ok)
           /\ editor_open' = editor_open \cup {[raw |-> uri0, uri |-> canonicalize_uri(uri0, fs)]}
    /\ Handled(env)
    /\ UNCHANGED phase
    /\ UNCHANGED <<preprocVars, assistVars>>

\* docs.rs:272  textDocument/didChange
ChangeDoc(env) ==
    /\ phase = "running" /\ Ready(env)
    /\ \E uri0 \in {e.raw : e \in editor_open}, version \in EditorVersions, text \in EditorTexts :
       \E cwd_ok \in CwdResults(chan), fs \in FsViews(paths_read(chan) \cup {RealPath(to_file_path(uri0))}) :
           EndWithPoll(change_doc(Self, uri0, version, text, fs), "change_doc", canonicalize_uri(uri0, fs), version, fs, cwd_ok)
    /\ Handled(env)
    /\ UNCHANGED <<phase, editor_open>>
    /\ UNCHANGED <<preprocVars, assistVars>>

\* docs.rs:280  textDocument/didClose
CloseDoc(env) ==
    /\ phase = "running" /\ Ready(env)
    /\ \E uri0 \in {e.raw : e \in editor_open} :
       \E cwd_ok \in CwdResults(chan), fs \in FsViews(paths_read(chan) \cup {RealPath(to_file_path(uri0))}) :
           /\ EndWithPoll(close_doc(Self, uri0, fs), "close_doc", canonicalize_uri(uri0, fs), 0, fs, cwd_ok)
           /\ editor_open' = {e \in editor_open : e.raw # uri0}
    /\ Handled(env)
    /\ UNCHANGED phase
    /\ UNCHANGED <<preprocVars, assistVars>>

\* docs.rs:155  the periodic poll
Poll(env) ==
    /\ phase = "running" /\ Ready(env)
    /\ \E cwd_ok \in CwdResults(chan), fs \in FsViews(paths_read(chan)) :
           EndWithPoll(Self, "poll", NoUri, 0, fs, cwd_ok)
    /\ Handled(env)
    /\ UNCHANGED <<phase, editor_open>>
    /\ UNCHANGED <<preprocVars, assistVars>>

\* docs.rs:85  the caller takes the pending DocChanges
DrainDocChanges ==
    /\ phase = "running"
    /\ doc_changes # <<>>
    /\ Len(changes) + Len(doc_changes) <= MaxQueue
    /\ LET r == drain_doc_changes(Self, changes)
       IN  /\ Store(r.s)
           /\ changes' = r.changes
    /\ call' = Call("drain_doc_changes", NoUri, 0, <<>>)
    /\ UNCHANGED <<chan, tx_alive, phase, editor_open>>
    /\ UNCHANGED <<preprocVars, assistVars>>

\* the caller has processed what it drained and drops its vector
ConsumeChanges ==
    /\ changes # <<>>
    /\ changes' = <<>>
    /\ call' = Call("consume", NoUri, 0, <<>>)
    /\ UNCHANGED <<docsVars, chan, tx_alive, phase, editor_open>>
    /\ UNCHANGED <<preprocVars, assistVars>>

\* docs.rs:56  fresh_doc is pub(crate): a DocId for a document without a URI
FreshDoc(env) ==
    /\ phase = "running" /\ Ready(env)
    /\ WithinBounds(fresh_doc(Self))
    /\ Store(fresh_doc(Self))
    /\ call' = Call("fresh_doc", NoUri, 0, <<>>)
    /\ Handled(env)
    /\ UNCHANGED <<chan, tx_alive, phase, editor_open>>
    /\ UNCHANGED <<preprocVars, assistVars>>

\* docs.rs:232  shutdown: the watcher and the receiver are dropped
Shutdown(env) ==
    /\ phase = "running" /\ Ready(env)
    /\ file_watcher
    /\ Store(shutdown_file_watcher(Self))
    /\ chan' = <<>>
    /\ tx_alive' = FALSE
    /\ call' = Call("shutdown", NoUri, 0, <<>>)
    /\ Handled(env)
    /\ UNCHANGED <<phase, editor_open>>
    /\ UNCHANGED <<preprocVars, assistVars>>

\* the watcher thread as it would be if it loaded the file itself instead of
\* only reporting the event
watcher_send_loading(ev) ==
    /\ chan' = Append(chan, ev)
    /\ Store(do_change_doc(Self, from_file_path(ev.path), NO_VERSION, "disk"))
    /\ UNCHANGED tx_alive

\* the watcher thread: tx.send(event) (the closure notify runs; docs.rs:140-142)
watcher_send(ev) ==
    /\ chan' = Append(chan, ev)
    /\ UNCHANGED <<docsVars, tx_alive>>

WatcherSend(env) ==
    /\ file_watcher /\ tx_alive
    /\ Len(chan) < MaxChan
    /\ \E ev \in env.events : watcher_send(ev)
    /\ call' = Call("watcher_send", NoUri, 0, <<>>)
    /\ UNCHANGED <<changes, phase, editor_open>>
    /\ UNCHANGED <<preprocVars, assistVars>>

\* the watcher thread ends and drops the sender: try_recv reports
\* Disconnected once the channel is empty (docs.rs:199)
WatcherExit ==
    /\ file_watcher /\ tx_alive
    /\ tx_alive' = FALSE
    /\ call' = Call("watcher_exit", NoUri, 0, <<>>)
    /\ UNCHANGED <<docsVars, chan, changes, phase, editor_open>>
    /\ UNCHANGED <<preprocVars, assistVars>>

vars == <<last_doc, doc_to_uri, uri_to_doc, open_docs, doc_versions,
          file_watcher, file_event_rx, doc_changes, issued, chan, tx_alive, changes,
          phase, editor_open, call, root, analysis, previous,
          input, output>>

Next ==
    \/ DidInitialize
    \/ OpenDoc(MainEnv)
    \/ ChangeDoc(MainEnv)
    \/ CloseDoc(MainEnv)
    \/ Poll(MainEnv)
    \/ DrainDocChanges
    \/ FreshDoc(MainEnv)
    \/ Shutdown(MainEnv)
    \/ WatcherSend(MainEnv)
    \/ WatcherExit

NextQueue ==
    \/ DidInitialize
    \/ OpenDoc(QueueEnv)
    \/ ChangeDoc(QueueEnv)
    \/ CloseDoc(QueueEnv)
    \/ Poll(QueueEnv)
    \/ DrainDocChanges
    \/ ConsumeChanges
    \/ FreshDoc(QueueEnv)
    \/ Shutdown(QueueEnv)
    \/ WatcherSend(QueueEnv)
    \/ WatcherExit

\* the store with a caller that drains after every call
Spec == Init /\ [][Next]_vars
\* the store with a caller that lets DocChanges pile up
SpecQueue == Init /\ [][NextQueue]_vars


(***************************************************************************)
(* The preprocessor analysis (analysis/preproc.rs).  Text is the sequence  *)
(* of its characters; a source location is a number.                       *)
(***************************************************************************)
\* the document under analysis (the `doc` argument of analyze_preproc)
AnalysedDoc == 1

\* ADefScope
ADefScopes == {"Global", "Local", "Param"}

\* struct ALocalScope (its Default: no module, no deffunc)
ALocalScope(module_opt, deffunc_opt) == [module_opt |-> module_opt, deffunc_opt |-> deffunc_opt]

\* ASymbolKind: the variant, the ctype flag of Macro, the type of Param
ASymbolKind(tag) == [tag |-> tag, ctype |-> FALSE, ty |-> None]
MacroKind(ctype) == [tag |-> "Macro", ctype |-> ctype, ty |-> None]
ParamKind(ty) == [tag |-> "Param", ctype |-> FALSE, ty |-> ty]

\* ADefFunc::new(index): the id of a deffunc is its sequence number
ADefFunc_new(index) == [index |-> index]

\* AModule::new(doc, &mut module_len, name_opt): the id of a module is the
\* document and the module's sequence number, and the counter is advanced
AModule_new(doc, module_len, name_opt) ==
    [module |-> [doc |-> doc, index |-> module_len + 1], module_len |-> module_len + 1]

\* resolve_name_scope_ns_for_def: the base name is the text; a Global
\* definition has the global scope and no namespace; a Param definition is
\* local to the nesting and has no namespace; a Local definition is local to
\* the nesting, its namespace that of the enclosing module if there is one
resolve_name_scope_ns_for_def(text, def, local) ==
    [basename |-> text,
     scope_opt |-> IF def = "Global"
                   THEN Some([tag |-> "Global", module_opt |-> None, deffunc_opt |-> None])
                   ELSE Some([tag |-> "Local", module_opt |-> local.module_opt,
                              deffunc_opt |-> local.deffunc_opt]),
     ns_opt |-> IF def = "Local" THEN local.module_opt ELSE None]

\* PParamTy::take_arg: the parameter types that take no argument
take_arg(ty) == ty \notin {"local"}

\* struct Ctx and its Default (preproc.rs:17)
Ctx_default ==
    [doc |-> 0, symbols |-> <<>>, includes |-> <<>>, scope |-> ALocalScope(None, None),
     modules |-> EmptyMap, deffuncs |-> EmptyMap, module_len |-> 0, deffunc_len |-> 0]

\* privacy_scope_or_local as it would be if it took no notice of the privacy
privacy_scope_or_local_always(privacy_opt) == "Local"

\* preproc.rs:30
privacy_scope_or_local(privacy_opt) ==
    IF privacy_opt = Some("Global") THEN "Global" ELSE "Local"

\* preproc.rs:37
privacy_scope_or_global(privacy_opt) ==
    IF privacy_opt = Some("Local") THEN "Local" ELSE "Global"

\* preproc.rs:55  the symbols with the new symbol pushed.  `asked` is history,
\* no field of ASymbolData: the definition scope and the local scope that
\* add_symbol hands to resolve_name_scope_ns_for_def
add_symbol(kind, leader, name, def, local, symbols) ==
    LET triple == resolve_name_scope_ns_for_def(name.text, def, local)
    IN  Append(symbols,
               [kind |-> kind, name |-> triple.basename, leader_opt |-> Some(leader),
                scope_opt |-> triple.scope_opt, ns_opt |-> triple.ns_opt,
                def_sites |-> <<name.loc>>, signature_opt |-> None,
                asked |-> [def |-> def, local |-> local]])

\* preproc.rs:44
Ctx_add_symbol(ctx, kind, leader, name, def) ==
    [ctx EXCEPT !.symbols = add_symbol(kind, leader, name, def, ctx.scope, ctx.symbols)]

\* the statements of the syntax tree: one record shape for every PStmt
\* variant; `hash` is the location of the leading token, `behind` the
\* location the statement ends at
PToken(text, loc) == [text |-> text, loc |-> loc]
PParam(param_ty_opt, name_opt) == [param_ty_opt |-> param_ty_opt, name_opt |-> name_opt]
PStmt(kind, hash) ==
    [kind |-> kind, hash |-> hash, behind |-> hash + 1, privacy_opt |-> None,
     name_opt |-> None, fkind |-> "none", onexit |-> FALSE, ctype |-> FALSE,
     params |-> <<>>, stmts |-> <<>>, file_path_opt |-> None]
\* the declarations that are a keyword, an optional privacy and a name
Named(kind, hash, privacy_opt, name_opt) ==
    [PStmt(kind, hash) EXCEPT !.privacy_opt = privacy_opt, !.name_opt = name_opt]
PDefFuncStmt(hash, fkind, privacy_opt, name_opt, onexit, params, stmts) ==
    [PStmt("DefFunc", hash) EXCEPT !.fkind = fkind, !.privacy_opt = privacy_opt,
                                   !.name_opt = name_opt, !.onexit = onexit,
                                   !.params = params, !.stmts = stmts]
PModuleStmt(hash, name_opt, fields, stmts) ==
    [PStmt("Module", hash) EXCEPT !.name_opt = name_opt, !.params = fields, !.stmts = stmts]
PIncludeStmt(hash, file_path_opt) ==
    [PStmt("Include", hash) EXCEPT !.file_path_opt = file_path_opt]

\* Loc::unite: the span from one location to another
unite(from, to) == <<from, to>>

\* str::to_ascii_lowercase on the letters the model's texts hold
to_ascii_lowercase(c) ==
    CASE c = "S" -> "s"
      [] c = "L" -> "l"
      [] OTHER -> c

\* str::replace("\\\\", "/"): each two backslashes become one slash
RECURSIVE replace(_)
replace(text) ==
    IF Len(text) >= 2 /\ text[1] = "\\" /\ text[2] = "\\"
    THEN <<"/">> \o replace(SubSeq(text, 3, Len(text)))
    ELSE IF text = <<>> THEN <<>>
    ELSE <<text[1]>> \o replace(Tail(text))

\* include_path as it would be if the case of the path were kept
include_path_keeping_case(text) ==
    LET l == IF text # <<>> /\ text[1] = "\"" THEN 1 ELSE 0
        r == Len(text) - (IF text # <<>> /\ text[Len(text)] = "\"" THEN 1 ELSE 0)
    IN  replace(SubSeq(text, l + 1, r))

\* preproc.rs:295-303  the path an include directive names, normalised
include_path(text) ==
    LET l == IF text # <<>> /\ text[1] = "\"" THEN 1 ELSE 0
        r == Len(text) - (IF text # <<>> /\ text[Len(text)] = "\"" THEN 1 ELSE 0)
        sliced == replace(SubSeq(text, l + 1, r))
    IN  [i \in DOMAIN sliced |-> to_ascii_lowercase(sliced[i])]

\* preproc.rs:349-358  the signature's entries for the declared parameters
RECURSIVE signature_params(_)
signature_params(params) ==
    IF params = <<>> THEN <<>>
    ELSE LET param == Head(params)
         IN  IF param.param_ty_opt # None /\ ~take_arg(param.param_ty_opt[1])
             THEN signature_params(Tail(params))
             ELSE <<[ty_opt |-> param.param_ty_opt,
                     name_opt |-> IF param.name_opt = None THEN None
                                  ELSE Some(param.name_opt[1].text)]>>
                  \o signature_params(Tail(params))

\* preproc.rs:334
new_signature_data_for_deffunc(stmt) ==
    IF stmt.fkind \in {"ModInit", "ModTerm"} \/ stmt.name_opt = None THEN None
    ELSE Some([name |-> stmt.name_opt[1].text,
               params |-> (IF stmt.fkind \in {"ModFunc", "ModCFunc"}
                           THEN <<[ty_opt |-> Some("modvar"), name_opt |-> Some("thismod")]>>
                           ELSE <<>>)
                          \o signature_params(stmt.params)])

\* preproc.rs:314
new_signature_data_for_lib_func(stmt) ==
    IF stmt.name_opt = None THEN None
    ELSE Some([name |-> stmt.name_opt[1].text, params |-> signature_params(stmt.params)])

\* preproc.rs:155-162
deffunc_symbol_kind(fkind) ==
    CASE fkind = "DefFunc" -> ASymbolKind("DefFunc")
      [] fkind = "DefCFunc" -> ASymbolKind("DefCFunc")
      [] fkind \in {"ModInit", "ModTerm", "ModFunc"} -> ASymbolKind("ModFunc")
      [] OTHER -> ASymbolKind("ModCFunc")

\* the signature of the symbol pushed last (symbol.signature_opt.borrow_mut())
set_signature(ctx, data_opt) ==
    IF data_opt = None THEN ctx
    ELSE [ctx EXCEPT !.symbols[Len(ctx.symbols)].signature_opt = data_opt]

\* add_params as it would be if the parameters were registered before the
\* function context is set
RECURSIVE add_params_outside(_, _, _)
add_params_outside(params, hash, ctx) ==
    IF params = <<>> THEN ctx
    ELSE LET param == Head(params)
             outside == [ctx EXCEPT !.scope.deffunc_opt = None]
         IN  add_params_outside(
                 Tail(params), hash,
                 IF param.name_opt = None THEN ctx
                 ELSE [Ctx_add_symbol(outside, ParamKind(param.param_ty_opt), hash,
                                      param.name_opt[1], "Param")
                          EXCEPT !.scope = ctx.scope])

\* preproc.rs:179-184  a Param symbol for every named parameter
RECURSIVE add_params(_, _, _)
add_params(params, hash, ctx) ==
    IF params = <<>> THEN ctx
    ELSE LET param == Head(params)
         IN  add_params(Tail(params), hash,
                        IF param.name_opt = None THEN ctx
                        ELSE Ctx_add_symbol(ctx, ParamKind(param.param_ty_opt), hash,
                                            param.name_opt[1], "Param"))

\* preproc.rs:281-283  a Field symbol for every named field
RECURSIVE add_fields(_, _)
add_fields(fields, ctx) ==
    IF fields = <<>> THEN ctx
    ELSE LET field == Head(fields)
         IN  add_fields(Tail(fields),
                        IF field.name_opt = None THEN ctx
                        ELSE Ctx_add_symbol(ctx, ASymbolKind("Field"), field.name_opt[1].loc,
                                            field.name_opt[1], "Local"))

\* the declarations that only add a symbol when they are named: the symbol
\* kind and the scope asked for (preproc.rs:89-129, 216-249)
simple_symbol(stmt) ==
    CASE stmt.kind = "Label" -> [kind |-> ASymbolKind("Label"), def |-> "Local"]
      [] stmt.kind = "Const" ->
             [kind |-> ASymbolKind("Const"), def |-> privacy_scope_or_local(stmt.privacy_opt)]
      [] stmt.kind = "Define" ->
             [kind |-> MacroKind(stmt.ctype), def |-> privacy_scope_or_local(stmt.privacy_opt)]
      [] stmt.kind = "Enum" ->
             [kind |-> ASymbolKind("Enum"), def |-> privacy_scope_or_local(stmt.privacy_opt)]
      [] stmt.kind = "UseCom" ->
             [kind |-> ASymbolKind("ComInterface"),
              def |-> privacy_scope_or_local(stmt.privacy_opt)]
      [] stmt.kind = "ComFunc" ->
             [kind |-> ASymbolKind("ComFunc"), def |-> privacy_scope_or_global(stmt.privacy_opt)]
      [] OTHER ->
             [kind |-> ASymbolKind("PluginCmd"), def |-> privacy_scope_or_local(stmt.privacy_opt)]

SimpleKinds == {"Label", "Const", "Define", "Enum", "UseCom", "ComFunc", "Cmd"}

\* preproc.rs:87
RECURSIVE on_stmt(_, _)
RECURSIVE on_stmts(_, _)
\* the walk of a block as it would be if the sequence numbers of functions
\* and modules were counted from the start of each block
RECURSIVE walk_block(_, _)
walk_block(stmts, ctx) ==
    IF stmts = <<>> THEN ctx ELSE walk_block(Tail(stmts), on_stmt(Head(stmts), ctx))
on_stmts_counting_per_block(stmts, ctx) ==
    walk_block(stmts, [ctx EXCEPT !.deffunc_len = 0, !.module_len = 0])

\* the walk of a block as it would be if a declaration without a name ended it
on_stmts_until_unnamed(stmts, ctx) ==
    IF stmts = <<>> THEN ctx
    ELSE IF /\ Head(stmts).kind \in SimpleKinds \cup {"LibFunc", "DefFunc", "Module"}
            /\ Head(stmts).name_opt = None
         THEN ctx
         ELSE on_stmts(Tail(stmts), on_stmt(Head(stmts), ctx))

on_stmts(stmts, ctx) ==
    IF stmts = <<>> THEN ctx ELSE on_stmts(Tail(stmts), on_stmt(Head(stmts), ctx))

on_stmt(stmt, ctx) ==
    CASE stmt.kind \in SimpleKinds ->
             IF stmt.name_opt = None THEN ctx
             ELSE Ctx_add_symbol(ctx, simple_symbol(stmt).kind, stmt.hash, stmt.name_opt[1],
                                 simple_symbol(stmt).def)
      [] stmt.kind = "DefFunc" ->
             LET deffunc == ADefFunc_new(ctx.deffunc_len + 1)
                 c1 == [ctx EXCEPT !.deffunc_len = ctx.deffunc_len + 1,
                                   !.deffuncs = Insert(ctx.deffuncs, deffunc,
                                                       [content_loc |-> unite(stmt.hash, stmt.behind)])]
                 named == stmt.name_opt # None /\ ~stmt.onexit
                 c2 == IF named
                       THEN set_signature(
                                Ctx_add_symbol(c1, deffunc_symbol_kind(stmt.fkind), stmt.hash,
                                               stmt.name_opt[1],
                                               privacy_scope_or_global(stmt.privacy_opt)),
                                new_signature_data_for_deffunc(stmt))
                       ELSE c1
                 parent_deffunc == c2.scope.deffunc_opt
                 c3 == [c2 EXCEPT !.scope.deffunc_opt = Some(deffunc)]
                 c4 == on_stmts(stmt.stmts, add_params(stmt.params, stmt.hash, c3))
             IN  [c4 EXCEPT !.scope.deffunc_opt = parent_deffunc]
      [] stmt.kind = "LibFunc" ->
             IF stmt.name_opt = None \/ stmt.onexit THEN ctx
             ELSE set_signature(
                      Ctx_add_symbol(ctx, ASymbolKind("LibFunc"), stmt.hash, stmt.name_opt[1],
                                     privacy_scope_or_local(stmt.privacy_opt)),
                      new_signature_data_for_lib_func(stmt))
      [] stmt.kind = "Module" ->
             LET made == AModule_new(ctx.doc, ctx.module_len, stmt.name_opt)
                 c1 == [ctx EXCEPT !.module_len = made.module_len,
                                   !.modules = Insert(ctx.modules, made.module,
                                                      [keyword_loc |-> stmt.hash,
                                                       content_loc |-> unite(stmt.hash, stmt.behind)])]
                 parent_scope == c1.scope
                 c2 == [c1 EXCEPT !.scope = ALocalScope(Some(made.module), None)]
                 c3 == IF stmt.name_opt = None THEN c2
                       ELSE Ctx_add_symbol(c2, ASymbolKind("Module"), stmt.hash,
                                           stmt.name_opt[1], "Global")
                 c4 == on_stmts(stmt.stmts, add_fields(stmt.params, c3))
             IN  [c4 EXCEPT !.scope = parent_scope]
      [] stmt.kind = "Include" ->
             IF stmt.file_path_opt # None /\ stmt.file_path_opt[1].kind = "Str"
             THEN [ctx EXCEPT !.includes =
                       Append(ctx.includes,
                              [text |-> include_path(stmt.file_path_opt[1].text),
                               loc |-> unite(stmt.hash, stmt.file_path_opt[1].behind)])]
             ELSE ctx
      [] OTHER -> ctx

\* preproc.rs:370
analyze_preproc(doc, r) ==
    LET ctx == on_stmts(r, [Ctx_default EXCEPT !.doc = doc])
    IN  [symbols |-> ctx.symbols, includes |-> ctx.includes,
         modules |-> ctx.modules, deffuncs |-> ctx.deffuncs]

(***************************************************************************)
(* The statement trees the analysis is run on.                             *)
(***************************************************************************)
\* *lab
LabelStmt == Named("Label", 10, None, Some(PToken("lab", 11)))
\* #const global k
ConstStmt == Named("Const", 20, Some("Global"), Some(PToken("k", 21)))
\* #include "Sub\\Lib.hsp"
IncludeStmt ==
    PIncludeStmt(30, Some([kind |-> "Str", behind |-> 31,
                           text |-> <<"\"", "S", "u", "b", "\\", "\\", "L", "i", "b", "\"">>]))
\* x = 1
AssignStmt == PStmt("Assign", 40)
\* #deffunc f int x, local y : *lab
DefFuncF ==
    PDefFuncStmt(50, "DefFunc", None, Some(PToken("f", 51)), FALSE,
                 <<PParam(Some("int"), Some(PToken("x", 52))),
                   PParam(Some("local"), Some(PToken("y", 53)))>>,
                 <<LabelStmt>>)
\* #modfunc local g
ModFuncG == PDefFuncStmt(60, "ModFunc", Some("Local"), Some(PToken("g", 61)), FALSE, <<>>, <<>>)
\* #deffunc h onexit
DefFuncOnExit == PDefFuncStmt(70, "DefFunc", None, Some(PToken("h", 71)), TRUE, <<>>, <<>>)
\* #module m ... #deffunc f ... #global
ModuleM == PModuleStmt(80, Some(PToken("m", 81)), <<>>, <<DefFuncF>>)
\* #module (no name) fld ... #modfunc g, #const k ... #global
ModuleAnon ==
    PModuleStmt(90, None, <<PParam(None, Some(PToken("fld", 91)))>>, <<ModFuncG, ConstStmt>>)

TopStmts ==
    {LabelStmt, ConstStmt, IncludeStmt, AssignStmt, DefFuncF, ModFuncG, DefFuncOnExit,
     ModuleM, ModuleAnon}

\* the trees of a document: no statement, one statement, or a function or
\* module followed by another statement
Roots ==
    {<<>>} \cup {<<t>> : t \in TopStmts}
           \cup {<<t, u>> : t \in {DefFuncF, ModuleM}, u \in {ModFuncG, ModuleAnon, IncludeStmt}}

(***************************************************************************)
(* The analysis of one document across its edits.                          *)
(***************************************************************************)
\* the document's text changes and the parser makes a new tree of it
EditDoc ==
    /\ \E r \in Roots \ {root} : root' = r
    /\ call' = Call("edit", NoUri, 0, <<>>)
    /\ UNCHANGED <<analysis, previous>>
    /\ UNCHANGED <<docsVars, chan, tx_alive, changes, phase, editor_open, assistVars>>

\* preproc.rs:370  the document is analysed (again, after an edit); the
\* result replaces the one of the analysis before
AnalyzePreproc ==
    /\ call.op # "analyze_preproc"
    /\ analysis' = Some(analyze_preproc(AnalysedDoc, root))
    /\ previous' = analysis
    /\ call' = Call("analyze_preproc", NoUri, 0, <<>>)
    /\ UNCHANGED root
    /\ UNCHANGED <<docsVars, chan, tx_alive, changes, phase, editor_open, assistVars>>

NextPreproc ==
    \/ EditDoc
    \/ AnalyzePreproc

\* the analysis of a document that is edited and analysed again
SpecPreproc == Init /\ [][NextPreproc]_vars

(***************************************************************************)
(* The walk as a function of the tree: one analysis of each tree of a      *)
(* larger set.                                                             *)
(***************************************************************************)
Privacies == {None, Some("Global"), Some("Local")}
DeclKinds == SimpleKinds \cup {"LibFunc", "DefFunc"}
DefFuncKinds == {"DefFunc", "DefCFunc", "ModInit", "ModTerm", "ModFunc", "ModCFunc"}

\* the name token of the statement that starts at `hash`, present or missing
NameOpts(text, hash) == {None, Some(PToken(text, hash + 1))}

\* a declaration of one kind: `#deffunc n int x`, `#func n int x`, `#const n`, ...
Decl(kind, hash, privacy_opt, name_opt) ==
    CASE kind = "DefFunc" ->
             PDefFuncStmt(hash, "DefFunc", privacy_opt, name_opt, FALSE,
                          <<PParam(Some("int"), Some(PToken("x", hash + 2)))>>, <<>>)
      [] kind = "LibFunc" ->
             [Named("LibFunc", hash, privacy_opt, name_opt)
                 EXCEPT !.params = <<PParam(Some("int"), Some(PToken("x", hash + 2)))>>]
      [] OTHER -> Named(kind, hash, privacy_opt, name_opt)

\* a block: a function ("fn"), an exit handler ("exit") or a module ("mod"),
\* with one parameter or field, around `body`
BlockKinds == {"fn", "exit", "mod"}
Block(kind, hash, name_opt, body) ==
    IF kind = "mod"
    THEN PModuleStmt(hash, name_opt, <<PParam(None, Some(PToken("fld", hash + 2)))>>, body)
    ELSE PDefFuncStmt(hash, "DefFunc", None, name_opt, kind = "exit",
                      <<PParam(Some("int"), Some(PToken("x", hash + 2)))>>, body)

\* one declaration, of every kind and privacy, named or not
SingleRoots ==
    {<<Decl(k, 10, p, n)>> : k \in DeclKinds, p \in Privacies, n \in NameOpts("n", 10)}

\* the same declarations inside a block
InBlockRoots ==
    {<<Block(b, 10, Some(PToken("b", 11)), <<Decl(k, 20, p, Some(PToken("n", 21)))>>)>> :
        b \in {"fn", "mod"}, k \in DeclKinds, p \in Privacies}

\* a block in a block, each with a label behind it, then a third block that
\* is named like the inner one, and a last label
NestRoots ==
    {<<Block(o, 10, on, <<Block(i, 20, in, <<Named("Label", 30, None, Some(PToken("l", 31)))>>),
                          Named("Label", 40, None, Some(PToken("l", 41)))>>),
       Block(i, 50, IF in = None THEN None ELSE Some(PToken("i", 51)), <<>>),
       Named("Label", 60, None, Some(PToken("l", 61)))>> :
        o \in BlockKinds, i \in BlockKinds, on \in NameOpts("o", 10), in \in NameOpts("i", 20)}

\* functions of every kind, with parameters that take an argument, take none
\* or have no type
FuncRoots ==
    {<<PDefFuncStmt(10, fk, None, Some(PToken("f", 11)), onexit,
                    <<PParam(Some("int"), Some(PToken("x", 12))),
                      PParam(Some("local"), Some(PToken("y", 13))),
                      PParam(None, Some(PToken("z", 14))),
                      PParam(Some("var"), None)>>, <<>>)>> :
        fk \in DefFuncKinds, onexit \in BOOLEAN}

\* the longest text between the quotes of an include directive
MaxIncludeLen == 3
\* the characters of those texts
IncludeChars == {"S", "b", "\\", "/"}
IncludeTexts == UNION {[1..k -> IncludeChars] : k \in 0..MaxIncludeLen}
\* `#include "Sub\\Lib.hsp"`
SubLibText == <<"\"", "S", "u", "b", "\\", "\\", "L", "i", "b", ".", "h", "s", "p", "\"">>
StrToken(text, behind) == [kind |-> "Str", behind |-> behind, text |-> text]
\* the argument of an include directive: missing, a string literal, or
\* another token
IncludeTokens ==
    {None, Some(StrToken(SubLibText, 11)),
     Some([kind |-> "Ident", behind |-> 11, text |-> <<"S", "b">>])}
        \cup {Some(StrToken(<<"\"">> \o t \o <<"\"">>, 11)) : t \in IncludeTexts}
IncludeRoots == {<<PIncludeStmt(10, tok)>> : tok \in IncludeTokens}

WalkRoots ==
    SingleRoots \cup InBlockRoots \cup NestRoots \cup FuncRoots \cup IncludeRoots \cup Roots

InitWalk ==
    /\ DocsInit
    /\ root \in WalkRoots
    /\ analysis = None
    /\ previous = None
    /\ input = None
    /\ output = None

NextWalk ==
    \/ AnalyzePreproc

\* one analysis of any tree
SpecWalk == InitWalk /\ [][NextWalk]_vars


(***************************************************************************)
(* The comment extractor (analysis/comment.rs).  A line is the sequence of *)
(* its characters.                                                         *)
(***************************************************************************)
\* char::is_control, char::is_whitespace, char::is_ascii_punctuation on the
\* characters the model's lines hold (every other character is a letter)
is_control(c) == c \in {"\t"}
is_whitespace(c) == c \in {" ", "\t"}
is_ascii_punctuation(c) == c \in {"-", "/", ";", ".", "*"}

\* comment.rs:4
char_is_ornament_comment(c) == is_control(c) \/ is_whitespace(c) \/ is_ascii_punctuation(c)

\* str_is_ornament_comment as it would be if only punctuation were ornament
str_is_punctuation_only(s) == \A i \in DOMAIN s : is_ascii_punctuation(s[i])

\* comment.rs:9
str_is_ornament_comment(s) == \A i \in DOMAIN s : char_is_ornament_comment(s[i])

\* str::trim_start, str::trim_end, str::trim
RECURSIVE trim_start(_)
trim_start(s) == IF s # <<>> /\ is_whitespace(Head(s)) THEN trim_start(Tail(s)) ELSE s
RECURSIVE trim_end(_)
trim_end(s) ==
    IF s # <<>> /\ is_whitespace(s[Len(s)]) THEN trim_end(SubSeq(s, 1, Len(s) - 1)) ELSE s
trim(s) == trim_end(trim_start(s))

\* str::starts_with
starts_with(s, prefix) == Len(s) >= Len(prefix) /\ SubSeq(s, 1, Len(prefix)) = prefix

\* comment.rs:14  the leaders, in the order they are tried
CommentLeaders == <<<<"/", "/", "/", " ">>, <<"/", "/", "/">>, <<"/", "/", " ">>, <<"/", "/">>, <<";", " ">>, <<";">>>>

\* comment.rs:13
RECURSIVE trim_leader_from(_, _)
trim_leader_from(s, k) ==
    IF k > Len(CommentLeaders) THEN s
    ELSE IF starts_with(s, CommentLeaders[k])
         THEN SubSeq(s, Len(CommentLeaders[k]) + 1, Len(s))
         ELSE trim_leader_from(s, k + 1)
trim_comment_leader(s) == trim_leader_from(s, 1)

\* comment.rs:28-35, 42-50  y after the ornament lines from line y on were
\* passed over (y counts the lines before)
RECURSIVE skip_ornament(_, _)
skip_ornament(comments, y) ==
    IF y < Len(comments) /\ str_is_ornament_comment(trim(comments[y + 1]))
    THEN skip_ornament(comments, y + 1)
    ELSE y

\* calculate_details as it would be if the lines behind the description all
\* went to the documentation
calculate_details_keeping(comments) ==
    LET y0 == skip_ornament(comments, 0)
        found == y0 < Len(comments)
        y1 == IF found THEN y0 + 1 ELSE y0
    IN  [desc |-> IF found THEN Some(trim_comment_leader(comments[y1])) ELSE None,
         docs |-> [i \in 1..(Len(comments) - y1) |->
                      trim_end(trim_comment_leader(comments[y1 + i]))]]

\* comment.rs:22
calculate_details(comments) ==
    LET y0 == skip_ornament(comments, 0)
        found == y0 < Len(comments)
        y1 == IF found THEN y0 + 1 ELSE y0
        y2 == skip_ornament(comments, y1)
    IN  [desc |-> IF found THEN Some(trim_comment_leader(comments[y1])) ELSE None,
         docs |-> IF y2 < Len(comments)
                  THEN [i \in 1..(Len(comments) - y2) |->
                           trim_end(trim_comment_leader(comments[y2 + i]))]
                  ELSE <<>>]

\* the lines of the comment blocks
CommentLines ==
    {<<>>,
     <<"-">>,
     <<" ">>,
     <<"\t">>,
     <<"/", "/">>,
     <<"/", "/", " ", "-">>,
     <<"-", " ", "-">>,
     <<";", " ">>,
     <<"a">>,
     <<"/", "/", " ", "a">>,
     <<"-", "a", "-">>,
     <<"a", " ">>}
\* the longest block made of them
MaxLines == 3
\* ["---- header ----", "Computes X.", "", "Returns Y."]
HeaderBlock ==
    <<<<"-", "-", "-", "-", " ", "h", "e", "a", "d", "e", "r", " ", "-", "-", "-", "-">>,
      <<"C", "o", "m", "p", "u", "t", "e", "s", " ", "X", ".">>,
      <<>>,
      <<"R", "e", "t", "u", "r", "n", "s", " ", "Y", ".">>>>
\* ["--------", "Computes X.", "", "Returns Y."]
DashBlock ==
    <<<<"-", "-", "-", "-", "-", "-", "-", "-">>,
      <<"C", "o", "m", "p", "u", "t", "e", "s", " ", "X", ".">>,
      <<>>,
      <<"R", "e", "t", "u", "r", "n", "s", " ", "Y", ".">>>>
CommentBlocks ==
    {HeaderBlock, DashBlock} \cup UNION {[1..k -> CommentLines] : k \in 0..MaxLines}

InitComment ==
    /\ DocsInit
    /\ root = <<>>
    /\ analysis = None
    /\ previous = None
    /\ input \in CommentBlocks
    /\ output = None

\* comment.rs:22  the details of a block of comment lines are calculated
CalculateDetails ==
    /\ call.op = "new"
    /\ output' = Some(calculate_details(input))
    /\ call' = Call("calculate_details", NoUri, 0, <<>>)
    /\ UNCHANGED <<docsVars, chan, tx_alive, changes, phase, editor_open, preprocVars, input>>

NextComment ==
    \/ CalculateDetails

\* calculate_details on any block
SpecComment == InitComment /\ [][NextComment]_vars

(***************************************************************************)
(* Completion (assists/completion.rs).                                     *)
(***************************************************************************)
\* AScope: Global, or Local with the ids of the enclosing module and deffunc
GlobalScope == [tag |-> "Global", module_opt |-> None, deffunc_opt |-> None]
LocalScope(module_opt, deffunc_opt) ==
    [tag |-> "Local", module_opt |-> module_opt, deffunc_opt |-> deffunc_opt]

\* completion.rs:36-52
completion_item_kind(kind) ==
    CASE kind = "Unresolved" -> "Text"
      [] kind \in {"Command", "CommandOrFunc", "Func"} -> "Function"
      [] kind \in {"CommandOrFuncOrVar", "PreProc"} -> "Keyword"
      [] kind = "Const" -> "Constant"
      [] kind = "Directory" -> "Folder"
      [] kind = "Enum" -> "EnumMember"
      [] kind = "Field" -> "Field"
      [] kind = "File" -> "File"
      [] kind = "Label" -> "Value"
      [] kind = "Module" -> "Module"
      [] kind \in {"Param", "StaticVar"} -> "Variable"
      [] OTHER -> "Class"

\* sort_prefix as it would be if Global symbols came behind Module symbols
sort_prefix_global_last(symbol) ==
    IF symbol.scope.tag = "Local"
    THEN CASE symbol.scope.module_opt # None /\ symbol.scope.deffunc_opt # None -> "a"
           [] symbol.scope.module_opt # None /\ symbol.scope.deffunc_opt = None -> "b"
           [] symbol.scope.module_opt = None /\ symbol.scope.deffunc_opt = None -> "c"
           [] OTHER -> "d"
    ELSE IF symbol.kind = "Module" THEN "e"
    ELSE "f"

\* sort_prefix as it would be if a symbol local to a function only came
\* before a symbol local to the file
sort_prefix_function_first(symbol) ==
    IF symbol.scope.tag = "Local"
    THEN CASE symbol.scope.module_opt # None /\ symbol.scope.deffunc_opt # None -> "a"
           [] symbol.scope.module_opt # None /\ symbol.scope.deffunc_opt = None -> "b"
           [] symbol.scope.module_opt = None /\ symbol.scope.deffunc_opt = None -> "d"
           [] OTHER -> "c"
    ELSE IF symbol.kind = "Module" THEN "f"
    ELSE "e"

\* completion.rs:55-64
sort_prefix(symbol) ==
    IF symbol.scope.tag = "Local"
    THEN CASE symbol.scope.module_opt # None /\ symbol.scope.deffunc_opt # None -> "a"
           [] symbol.scope.module_opt # None /\ symbol.scope.deffunc_opt = None -> "b"
           [] symbol.scope.module_opt = None /\ symbol.scope.deffunc_opt = None -> "c"
           [] OTHER -> "d"
    ELSE IF symbol.kind = "Module" THEN "f"
    ELSE "e"

\* [String]::join
RECURSIVE join(_, _)
join(strs, sep) ==
    IF strs = <<>> THEN <<>>
    ELSE IF Len(strs) = 1 THEN strs[1]
    ELSE strs[1] \o sep \o join(Tail(strs), sep)

\* completion.rs:31-77  the CompletionItem of a symbol
symbol_item(symbol) ==
    LET details == calculate_details(symbol.comments)
    IN  [kind |-> Some(completion_item_kind(symbol.kind)),
         label |-> symbol.name,
         detail |-> details.desc,
         documentation |-> IF details.docs = <<>> THEN None
                           ELSE Some(join(details.docs, <<"\r", "\n", "\r", "\n">>)),
         sort_text |-> Some(<<sort_prefix(symbol)>> \o symbol.name)]

\* completion.rs:18  loc_opt: what to_loc answers; collected: what
\* wa.collect_completion_items(loc) answers
completion(loc_opt, collected, other_items) ==
    IF loc_opt = None THEN None
    ELSE Some([is_incomplete |-> FALSE,
               items |-> [i \in DOMAIN collected |-> symbol_item(collected[i])] \o other_items])

\* the symbols the analysis offers: every kind of scope, three kinds, names
\* that start below, at and above the prefixes
CompletionNames == {<<>>, <<"A">>, <<"a">>, <<"f", "a">>, <<"z">>}
CompletionScopes ==
    {GlobalScope} \cup {LocalScope(m, f) : m \in {None, Some([doc |-> 1, index |-> 1])},
                                           f \in {None, Some([index |-> 1])}}
CompletionSymbols ==
    {[kind |-> k, name |-> n, scope |-> s, comments |-> <<>>] :
        k \in {"Module", "Func", "StaticVar"}, n \in CompletionNames, s \in CompletionScopes}
    \cup {[kind |-> "Label", name |-> <<"l">>, scope |-> GlobalScope, comments |-> c] :
            c \in {HeaderBlock, DashBlock}}
\* the items of the caller (keywords)
KeywordItem ==
    [kind |-> Some("Keyword"), label |-> <<"i", "f">>, detail |-> None,
     documentation |-> None, sort_text |-> None]
CompletionRequests ==
    {[loc_opt |-> l, collected |-> c, other_items |-> o] :
        l \in {None, Some(1)},
        c \in {<<>>} \cup {<<s>> : s \in CompletionSymbols}
                     \cup {<<s, t>> : s \in CompletionSymbols, t \in CompletionSymbols},
        o \in {<<>>, <<KeywordItem>>}}

InitCompletion ==
    /\ DocsInit
    /\ root = <<>>
    /\ analysis = None
    /\ previous = None
    /\ input \in CompletionRequests
    /\ output = None

\* completion.rs:18  a completion request is answered
Completion ==
    /\ call.op = "new"
    /\ output' = completion(input.loc_opt, input.collected, input.other_items)
    /\ call' = Call("completion", NoUri, 0, <<>>)
    /\ UNCHANGED <<docsVars, chan, tx_alive, changes, phase, editor_open, preprocVars, input>>

NextCompletion ==
    \/ Completion

\* completion on any request
SpecCompletion == InitCompletion /\ [][NextCompletion]_vars

(***************************************************************************)
(* Definitions (assists/definitions.rs).  The position's document, the     *)
(* symbol found at the position, the symbol's definition sites and the     *)
(* documents that have a uri are the answers of the document store and of  *)
(* the workspace analysis: they are part of the request here.              *)
(***************************************************************************)
\* definitions.rs:22  loc_to_location(loc, docs): the location of a site
\* whose document has a uri
loc_to_location(loc, with_uri) ==
    IF loc.doc \in with_uri THEN Some([uri |-> loc.doc, range |-> loc.range]) ELSE None

\* definitions.rs:21-23  filter_map(loc_to_location).collect()
RECURSIVE filter_map_locations(_, _)
filter_map_locations(locs, with_uri) ==
    IF locs = <<>> THEN <<>>
    ELSE LET location_opt == loc_to_location(Head(locs), with_uri)
         IN  location_opt \o filter_map_locations(Tail(locs), with_uri)

\* definitions.rs:8
definitions(doc_pos_opt, located_opt, with_uri) ==
    IF doc_pos_opt = None THEN None
    ELSE IF located_opt = None THEN None
    ELSE Some(filter_map_locations(located_opt[1].def_sites, with_uri))

DefinitionDocs == {1, 2}
DefinitionSites == {[doc |-> d, range |-> r] : d \in DefinitionDocs, r \in {10, 20}}
MaxSites == 2
DefinitionSymbols ==
    {[def_sites |-> s] :
        s \in UNION {[1..n -> DefinitionSites] : n \in 0..MaxSites}}
DefinitionRequests ==
    {[doc_pos_opt |-> d, located_opt |-> l, with_uri |-> w] :
        d \in {None, Some([doc |-> 1, pos |-> 10])},
        l \in {None} \cup {Some(s) : s \in DefinitionSymbols},
        w \in SUBSET DefinitionDocs}

InitDefinitions ==
    /\ DocsInit
    /\ root = <<>>
    /\ analysis = None
    /\ previous = None
    /\ input \in DefinitionRequests
    /\ output = None

\* definitions.rs:8  a definitions request is answered
Definitions ==
    /\ call.op = "new"
    /\ output' = definitions(input.doc_pos_opt, input.located_opt, input.with_uri)
    /\ call' = Call("definitions", NoUri, 0, <<>>)
    /\ UNCHANGED <<docsVars, chan, tx_alive, changes, phase, editor_open, preprocVars, input>>

NextDefinitions ==
    \/ Definitions

\* definitions on any request
SpecDefinitions == InitDefinitions /\ [][NextDefinitions]_vars

(***************************************************************************)
(* The argument parser of hsp3-forgery (hf_core/src/parse/parse_expr.rs),  *)
(* step by step: `input` is the token sequence, `output` holds the parse   *)
(* context (the position and the nodes started and ended so far) and the   *)
(* stack of the functions that have been entered and have not returned.    *)
(***************************************************************************)
\* the longest token sequence
MaxTokens == 4
\* enum Token: the kinds parse_expr.rs tells apart, and one ("Eq") that
\* starts no argument and ends none
Tokens == {"Ident", "Digit", "LeftParen", "RightParen", "Comma", "Minus", "Eq"}

\* Token::at_end_of_stmt: the end of the input ends a statement
at_end_of_stmt(token) == token = "Eof"
\* Token::is_int_literal_first
is_int_literal_first(token) == token = "Digit"

\* parse_expr.rs:6
is_expr_first(token) == token \in {"Digit", "Ident", "LeftParen", "Minus"}
\* parse_expr.rs:20
at_end_of_expr(token) == at_end_of_stmt(token) \/ token = "RightParen"
\* is_arg_first as it would be if a closing parenthesis started an argument
is_arg_first_or_close(token) == is_expr_first(token) \/ token \in {"Comma", "RightParen"}
\* parse_expr.rs:24
is_arg_first(token) == is_expr_first(token) \/ token = "Comma"
\* parse_expr.rs:28
at_end_of_args(token) == at_end_of_expr(token) \/ at_end_of_stmt(token)

\* ParseContext: the tokens, the number of tokens consumed, and the node
\* events so far
Px(tokens) == [tokens |-> tokens, pos |-> 0, events |-> <<>>]
at_eof(p) == p.pos >= Len(p.tokens)
next(p) == IF at_eof(p) THEN "Eof" ELSE p.tokens[p.pos + 1]
bump(p) == IF at_eof(p) THEN p ELSE [p EXCEPT !.pos = p.pos + 1]
\* p.eat(token): the token is consumed if it is the next one
eats(p, token) == next(p) = token
eat(p, token) == IF eats(p, token) THEN bump(p) ELSE p
start_node(p) == [p EXCEPT !.events = Append(p.events, "start")]
restart_node(p) == [p EXCEPT !.events = Append(p.events, "restart")]
end_node(p, kind) == [p EXCEPT !.events = Append(p.events, kind)]
\* parse_name and parse_int_literal consume the token they are called on
parse_name(p) == bump(p)
parse_int_literal(p) == bump(p)

\* a function that has been entered: where it is, the local of parse_args
\* and (history) the position at which parse_args found an argument to start
Frame(fn, pc) == [fn |-> fn, pc |-> pc, ends_with_comma |-> FALSE, from |-> 0]

\* the parse context and the stack in the state (the top comes first)
Parser == output[1]
Top == Parser.stack[1]
At(fn, pc) ==
    /\ output # None
    /\ Parser.stack # <<>>
    /\ Top.fn = fn /\ Top.pc = pc

\* the step's effect: the parse context, and the stack with its top replaced
\* by `frames` (none: the function returns)
Step(op, p, frames) ==
    /\ output' = Some([p |-> p, stack |-> frames \o Tail(Parser.stack)])
    /\ call' = Call(op, NoUri, 0, <<>>)
    /\ UNCHANGED <<docsVars, chan, tx_alive, changes, phase, editor_open, preprocVars, input>>

\* parse_expr.rs:85  the condition of the error recovery
Unexpected(p) == ~at_eof(p) /\ ~is_arg_first(next(p)) /\ ~at_end_of_args(next(p))

\* parse_expr.rs:83-86  the head of the loop
ParseArgsLoop ==
    /\ At("parse_args", "loop")
    /\ IF Unexpected(Parser.p)
       THEN Step("parse_args", start_node(Parser.p), <<[Top EXCEPT !.pc = "recover"]>>)
       ELSE Step("parse_args", Parser.p, <<[Top EXCEPT !.pc = "check"]>>)

\* parse_expr.rs:87-90  the error recovery skips a token or ends
ParseArgsRecover ==
    /\ At("parse_args", "recover")
    /\ IF Unexpected(Parser.p)
       THEN Step("parse_args", bump(Parser.p), <<Top>>)
       ELSE Step("parse_args", end_node(Parser.p, "Other"), <<[Top EXCEPT !.pc = "check"]>>)

\* parse_expr.rs:93-101  the loop ends, or an argument starts
ParseArgsCheck ==
    /\ At("parse_args", "check")
    /\ LET p == Parser.p
           arg == [Top EXCEPT !.pc = "comma", !.from = p.pos]
       IN  IF ~is_arg_first(next(p))
           THEN Step("parse_args", p, <<[Top EXCEPT !.pc = "after"]>>)
           ELSE IF is_expr_first(next(p))
           THEN Step("parse_args", start_node(p), <<Frame("parse_expr", "match"), arg>>)
           ELSE Step("parse_args", start_node(p), <<arg>>)

\* parse_expr.rs:103-106  the comma behind the argument, and the next turn
ParseArgsComma ==
    /\ At("parse_args", "comma")
    /\ Step("parse_args", end_node(eat(Parser.p, "Comma"), "Arg"),
            <<[Top EXCEPT !.pc = "loop", !.ends_with_comma = eats(Parser.p, "Comma")]>>)

\* parse_expr.rs:108-112  behind the loop
ParseArgsReturn ==
    /\ At("parse_args", "after")
    /\ Step("parse_args",
            IF Top.ends_with_comma THEN end_node(start_node(Parser.p), "Arg") ELSE Parser.p,
            <<>>)

\* parse_expr.rs:65
ParseExpr ==
    /\ At("parse_expr", "match")
    /\ LET p == Parser.p
       IN  CASE next(p) = "Ident" -> Step("parse_expr", p, <<Frame("parse_call_expr", "name")>>)
             [] next(p) = "LeftParen" ->
                    Step("parse_expr", p, <<Frame("parse_group_expr", "open")>>)
             [] is_int_literal_first(next(p)) -> Step("parse_expr", parse_int_literal(p), <<>>)
             [] OTHER -> Step("parse_expr", bump(p), <<>>)

\* parse_expr.rs:45-58
ParseCallExprName ==
    /\ At("parse_call_expr", "name")
    /\ LET p == parse_name(Parser.p)
       IN  IF ~eats(p, "LeftParen")
           THEN Step("parse_call_expr", p, <<>>)
           ELSE Step("parse_call_expr", restart_node(eat(p, "LeftParen")),
                     <<Frame("parse_args", "loop"), [Top EXCEPT !.pc = "close"]>>)

\* parse_expr.rs:60-62
ParseCallExprClose ==
    /\ At("parse_call_expr", "close")
    /\ Step("parse_call_expr", end_node(eat(Parser.p, "RightParen"), "CallExpr"), <<>>)

\* parse_expr.rs:33-40
ParseGroupExprOpen ==
    /\ At("parse_group_expr", "open")
    /\ LET p == bump(Parser.p)
       IN  IF is_expr_first(next(p))
           THEN Step("parse_group_expr", p,
                     <<Frame("parse_expr", "match"), [Top EXCEPT !.pc = "close"]>>)
           ELSE Step("parse_group_expr", p, <<[Top EXCEPT !.pc = "close"]>>)

\* parse_expr.rs:42
ParseGroupExprClose ==
    /\ At("parse_group_expr", "close")
    /\ Step("parse_group_expr", eat(Parser.p, "RightParen"), <<>>)

\* parse_args is entered on any token sequence
TokenSeqs == UNION {[1..n -> Tokens] : n \in 0..MaxTokens}
InitParse ==
    /\ DocsInit
    /\ root = <<>>
    /\ analysis = None
    /\ previous = None
    /\ input \in TokenSeqs
    /\ output = Some([p |-> Px(input), stack |-> <<Frame("parse_args", "loop")>>])

NextParse ==
    \/ ParseArgsLoop
    \/ ParseArgsRecover
    \/ ParseArgsCheck
    \/ ParseArgsComma
    \/ ParseArgsReturn
    \/ ParseExpr
    \/ ParseCallExprName
    \/ ParseCallExprClose
    \/ ParseGroupExprOpen
    \/ ParseGroupExprClose

\* parse_args on any token sequence; a function that has been entered takes
\* its next step
SpecParse == InitParse /\ [][NextParse]_vars /\ WF_vars(NextParse)

(***************************************************************************)
(* Properties of the document store.                                       *)
(***************************************************************************)
\* the DocChanges a step appends to the pending queue
Appended ==
    IF Len(doc_changes') >= Len(doc_changes)
       /\ SubSeq(doc_changes', 1, Len(doc_changes)) = doc_changes
    THEN SubSeq(doc_changes', Len(doc_changes) + 1, Len(doc_changes'))
    ELSE <<>>

\* the Changed events with text read from disk that a step queues for `doc`
DiskLoads(doc) ==
    {i \in DOMAIN Appended : /\ Appended[i].kind = "Changed"
                             /\ Appended[i].text \in DiskTexts
                             /\ Appended[i].doc = doc}

\* the store's own open marker for a URI (is_open of change_file)
IsOpen(uri) == uri \in DOMAIN uri_to_doc /\ uri_to_doc[uri] \in open_docs

\* C1: while a document is open in the editor, no step queues a Changed
\* event carrying disk text for a document of its URI.
C1_OpenDocNeverLoadedFromDisk ==
    [][\A e \in editor_open \cap editor_open' :
           \A d \in DOMAIN doc_to_uri' :
               doc_to_uri'[d] = e.uri => DiskLoads(d) = {}]_vars

\* C2: a DocumentId is created once per distinct URI: no two of the ids
\* handed out were allocated for the same URI.
C2_OneIdPerUri ==
    \A i, j \in DOMAIN issued :
        (issued[i].uri # NoUri /\ issued[i].uri = issued[j].uri) => i = j

\* C3: an editor call appends exactly one DocChange for the document of its
\* URI (Opened, Changed, Closed), and open and change record the version.
\* Stated for the calls whose closing poll receives no watcher event, so that
\* what is appended is the call's own.
C3_EditorCallAppendsOne ==
    [][(call'.op \in EditorOps /\ call'.batch = <<>>) =>
          CASE call'.op = "open_doc" ->
                   /\ call'.uri \in DOMAIN uri_to_doc'
                   /\ Appended = <<Opened(uri_to_doc'[call'.uri], "edit")>>
                   /\ doc_versions'[uri_to_doc'[call'.uri]] = call'.version
            [] call'.op = "change_doc" ->
                   /\ call'.uri \in DOMAIN uri_to_doc'
                   /\ Appended = <<Changed(uri_to_doc'[call'.uri], "edit")>>
                   /\ doc_versions'[uri_to_doc'[call'.uri]] = call'.version
            [] OTHER ->
                   call'.uri \in DOMAIN uri_to_doc =>
                       Appended = <<Closed(uri_to_doc[call'.uri])>>]_vars

\* C4: a file that cannot be read or decoded is skipped: no DocChange carrying
\* what a failed read left in the buffer is ever queued.
C4_FailedLoadQueuesNothing ==
    \A i \in DOMAIN doc_changes : doc_changes[i].text \notin FailedReadTexts

\* the positions of the events of one kind for one path in a batch
Positions(batch, kinds, path) ==
    {i \in DOMAIN batch : batch[i].kind \in kinds /\ batch[i].path = path}

\* C5: a poll that receives a Remove of a path followed by a Create of the
\* same path (no Rescan, the path not open) loads the file, queueing a
\* Changed event for it, and queues no Closed event for it.
C5_RemoveThenCreateIsUpdate ==
    [][\A p \in TreePathSet :
          (/\ call'.op = "poll"
           /\ ~rescan_of(call'.batch)
           /\ ~IsOpen(from_file_path(p))
           /\ \E i \in Positions(call'.batch, {"Remove"}, p) :
                  \E j \in Positions(call'.batch, {"Create"}, p) : i < j)
          => /\ from_file_path(p) \in DOMAIN uri_to_doc'
             /\ DiskLoads(uri_to_doc'[from_file_path(p)]) # {}
             /\ \A i \in DOMAIN Appended : Appended[i].kind # "Closed"]_vars

\* what C6 is about: the polling step just taken received Create or Write
\* events for p, p has no open marker and the batch does not remove it
UpdatedOnly(p) ==
    /\ call'.op \in PollingOps
    /\ file_event_rx
    /\ Positions(call'.batch, {"Create", "Write"}, p) # {}
    /\ file_ext_is_watched(p)
    /\ p \notin removed_paths_of(call'.batch)
    /\ ~(from_file_path(p) \in DOMAIN uri_to_doc' /\ uri_to_doc'[from_file_path(p)] \in open_docs')

\* C6 as stated: any number of Create and Write events for one path in one
\* poll produce exactly one Changed event for it.
C6_OneUpdatePerPath ==
    [][\A p \in TreePathSet :
          UpdatedOnly(p) =>
              /\ from_file_path(p) \in DOMAIN uri_to_doc'
              /\ Cardinality(DiskLoads(uri_to_doc'[from_file_path(p)])) = 1]_vars

\* C6 as amended: ... provided the batch holds no Rescan event.
C6_OneUpdatePerPathNoRescan ==
    [][\A p \in TreePathSet :
          (UpdatedOnly(p) /\ ~rescan_of(call'.batch)) =>
              /\ from_file_path(p) \in DOMAIN uri_to_doc'
              /\ Cardinality(DiskLoads(uri_to_doc'[from_file_path(p)])) = 1]_vars

\* a poll has just turned a Create and a Write of a.hsp into one Changed event
C6_Witness ==
    /\ call.op = "poll"
    /\ call.batch = <<Create(PathA), Write(PathA)>>
    /\ from_file_path(PathA) \in DOMAIN uri_to_doc
    /\ doc_changes = <<Changed(uri_to_doc[from_file_path(PathA)], "disk")>>

\* C7: drain_doc_changes hands the whole pending queue to the caller, in
\* order, and empties it; no other step removes or reorders a pending
\* DocChange or touches what the caller holds, except that the caller drops
\* its vector.  So every DocChange reaches the caller exactly once.
C7_DrainDeliversOnce ==
    [][IF call'.op = "drain_doc_changes"
       THEN changes' = changes \o doc_changes /\ doc_changes' = <<>>
       ELSE /\ Len(doc_changes') >= Len(doc_changes)
            /\ SubSeq(doc_changes', 1, Len(doc_changes)) = doc_changes
            /\ changes' \in {changes, <<>>}]_vars

\* a drain has just added two DocChanges to one the caller held already
C7_Witness ==
    /\ call.op = "drain_doc_changes"
    /\ Len(changes) = 3
    /\ changes[1].kind = "Opened" /\ changes[3].kind = "Closed"
    /\ doc_changes = <<>>

\* C8: DocIds are handed out in strictly increasing order, so none is handed
\* out twice, and a DocId is only ever mapped to the URI it was allocated
\* for, also once that URI's mapping has been dropped.
C8_IdsNeverReused ==
    /\ \A i, j \in DOMAIN issued : i < j => issued[i].doc < issued[j].doc
    /\ \A i \in DOMAIN issued : issued[i].doc <= last_doc
    /\ \A d \in DOMAIN doc_to_uri :
           \E i \in DOMAIN issued : issued[i].doc = d /\ issued[i].uri = doc_to_uri[d]
    /\ \A u \in DOMAIN uri_to_doc :
           \E i \in DOMAIN issued : issued[i].doc = uri_to_doc[u] /\ issued[i].uri = u

\* a URI whose mapping was dropped has been resolved again, to a later id
C8_Witness ==
    \E i, j \in DOMAIN issued :
        /\ i < j
        /\ issued[i].uri = issued[j].uri
        /\ issued[i].doc \notin DOMAIN doc_to_uri
        /\ issued[j].doc \in DOMAIN doc_to_uri

\* C9: a step of the watcher thread only appends an event to the channel (or
\* drops the sender); the store's tables and its pending queue change only
\* in steps of the consuming thread.
C9_WatcherOnlySends ==
    [][call'.op \in WatcherOps =>
          /\ UNCHANGED docsVars
          /\ \/ chan' = chan
             \/ \E ev \in WatcherEvents : chan' = Append(chan, ev)]_vars

\* the watcher thread has just put a second event on the channel while the
\* store holds documents and a pending DocChange
C9_Witness ==
    /\ call.op = "watcher_send"
    /\ Len(chan) = 2
    /\ uri_to_doc # EmptyMap
    /\ doc_changes # <<>>

(***************************************************************************)
(* Properties of the preprocessor analysis.                                *)
(***************************************************************************)
\* C10: the module ids and the deffunc ids of a document's analysis are
\* disjoint from the ids of the analysis it replaced.
C10_GenerationsDisjoint ==
    (analysis # None /\ previous # None) =>
        /\ DOMAIN analysis[1].modules \cap DOMAIN previous[1].modules = {}
        /\ DOMAIN analysis[1].deffuncs \cap DOMAIN previous[1].deffuncs = {}

\* every statement of a tree, at any depth
RECURSIVE AllStmts(_)
AllStmts(stmts) ==
    IF stmts = <<>> THEN {}
    ELSE {Head(stmts)} \cup AllStmts(Head(stmts).stmts) \cup AllStmts(Tail(stmts))

\* the analysis in the state is the analysis of the tree in the state
Analysed == call.op = "analyze_preproc" /\ analysis # None

\* the symbols of the analysis in the state
Symbols == {analysis[1].symbols[i] : i \in DOMAIN analysis[1].symbols}

\* the symbols a statement's own declaration pushed: those led by its first
\* token and defined at its name
OwnSymbols(stmt) ==
    IF stmt.name_opt = None THEN {}
    ELSE {sym \in Symbols : /\ sym.leader_opt = Some(stmt.hash)
                            /\ sym.def_sites = <<stmt.name_opt[1].loc>>}

DefaultLocalTags == {"Const", "Macro", "Enum", "LibFunc", "ComInterface", "PluginCmd"}
DefaultGlobalTags == {"DefFunc", "DefCFunc", "ModFunc", "ModCFunc", "ComFunc"}

\* C11: the definition scope asked for depends only on the kind of the
\* declaration and its privacy: constants, macros, enums, library functions,
\* COM interfaces and plugin commands ask for Local unless the privacy is
\* global; functions and COM functions ask for Global unless it is local;
\* labels, parameters and fields never ask for Global; modules always do.
C11_RequestedScope ==
    Analysed =>
        /\ \A stmt \in AllStmts(root) : \A sym \in OwnSymbols(stmt) :
               /\ sym.kind.tag \in DefaultLocalTags =>
                      sym.asked.def = IF stmt.privacy_opt = Some("Global") THEN "Global" ELSE "Local"
               /\ sym.kind.tag \in DefaultGlobalTags =>
                      sym.asked.def = IF stmt.privacy_opt = Some("Local") THEN "Local" ELSE "Global"
        /\ \A sym \in Symbols :
               /\ sym.kind.tag \in {"Label", "Param", "Field"} => sym.asked.def # "Global"
               /\ sym.kind.tag = "Module" => sym.asked.def = "Global"
               /\ sym.kind.tag \in DefaultLocalTags \cup DefaultGlobalTags =>
                      \E stmt \in AllStmts(root) : sym \in OwnSymbols(stmt)

\* a constant marked global inside a module has asked for Global, next to a
\* field of that module that asked for Local
C11_Witness ==
    /\ Analysed
    /\ \E sym \in Symbols : /\ sym.kind.tag = "Const"
                            /\ sym.asked.def = "Global"
                            /\ sym.asked.local.module_opt # None
    /\ \E sym \in Symbols : sym.kind.tag = "Field" /\ sym.asked.def = "Local"

(***************************************************************************)
(* Properties of the comment extractor.                                    *)
(***************************************************************************)
\* a line is decorative when it holds nothing but control, whitespace and
\* punctuation characters
Decorative(line) ==
    \A i \in DOMAIN line : line[i] \in {"\t", " ", "-", "/", ";", ".", "*"}

\* C12: for a comment block whose lines are all decorative, calculate_details
\* returns no description and an empty documentation list.
C12_DecorativeOnlyBlock ==
    (call.op = "calculate_details" /\ \A i \in DOMAIN input : Decorative(input[i])) =>
        output = Some([desc |-> None, docs |-> <<>>])

\* the details of a block of three decorative lines, one with a blank inside
\* and one that is only a comment leader, have been calculated
C12_Witness ==
    /\ call.op = "calculate_details"
    /\ input = <<<<"-", " ", "-">>, <<"/", "/">>, <<" ">>>>
    /\ output # None

\* C13 as stated: for ["---- header ----", "Computes X.", "", "Returns Y."]
\* the description is "Computes X." and the documentation ["", "Returns Y."].
C13_HeaderSkipped ==
    (call.op = "calculate_details" /\ input = HeaderBlock) =>
        output = Some([desc |-> Some(HeaderBlock[2]), docs |-> <<HeaderBlock[3], HeaderBlock[4]>>])

\* C13 as amended: "---- header ----" holds letters, so it is the description
\* and the three lines behind it are the documentation; with the header
\* "--------" the description is "Computes X." and the documentation is
\* ["Returns Y."], the blank line behind the description being passed over.
C13_HeaderWithLettersKept ==
    /\ (call.op = "calculate_details" /\ input = HeaderBlock) =>
           output = Some([desc |-> Some(HeaderBlock[1]),
                          docs |-> <<HeaderBlock[2], HeaderBlock[3], HeaderBlock[4]>>])
    /\ (call.op = "calculate_details" /\ input = DashBlock) =>
           output = Some([desc |-> Some(DashBlock[2]), docs |-> <<DashBlock[4]>>])

\* the details of the block with the dashes-only header have been calculated
C13_Witness ==
    /\ call.op = "calculate_details"
    /\ input = DashBlock
    /\ output # None
    /\ output[1].desc # None

(***************************************************************************)
(* Properties of completion.                                               *)
(***************************************************************************)
\* the code of a character (ASCII)
CharCode(c) ==
    CASE c = "A" -> 65
      [] c = "a" -> 97
      [] c = "b" -> 98
      [] c = "c" -> 99
      [] c = "d" -> 100
      [] c = "e" -> 101
      [] c = "f" -> 102
      [] c = "l" -> 108
      [] OTHER -> 122

\* s sorts before t (strings are compared character by character)
RECURSIVE SortsBefore(_, _)
SortsBefore(s, t) ==
    IF t = <<>> THEN FALSE
    ELSE IF s = <<>> THEN TRUE
    ELSE IF CharCode(Head(s)) # CharCode(Head(t)) THEN CharCode(Head(s)) < CharCode(Head(t))
    ELSE SortsBefore(Tail(s), Tail(t))

\* the classes of symbols, in the order the completion list shows them:
\* Local to a module and a function, to a module only, to neither, to a
\* function only, then Global, then the Global symbols that are modules
SortClass(symbol) ==
    IF symbol.scope.tag = "Local"
    THEN IF symbol.scope.module_opt # None
         THEN (IF symbol.scope.deffunc_opt # None THEN 1 ELSE 2)
         ELSE (IF symbol.scope.deffunc_opt = None THEN 3 ELSE 4)
    ELSE IF symbol.kind # "Module" THEN 5 ELSE 6

Completed == call.op = "completion" /\ output # None

\* C14: a symbol of an earlier class (Local to module and function, Local to a
\* module, Local to neither, Local to a function, Global, Module) has a sort
\* text that sorts before the sort text of every symbol of a later class,
\* whatever their names.
C14_SortOrderByClass ==
    Completed =>
        \A i, j \in DOMAIN input.collected :
            SortClass(input.collected[i]) < SortClass(input.collected[j]) =>
                SortsBefore(output[1].items[i].sort_text[1], output[1].items[j].sort_text[1])

\* a file-local symbol named "z" has been listed with a function-local symbol
\* with the empty name
C14_Witness ==
    /\ Completed
    /\ Len(input.collected) = 2
    /\ SortClass(input.collected[1]) = 3 /\ input.collected[1].name = <<"z">>
    /\ SortClass(input.collected[2]) = 4 /\ input.collected[2].name = <<>>

\* C15 as stated: the prefix of a Global symbol that is no module is greater
\* than the prefix of every other class, that of a module being the one
\* immediately below it.
C15_GlobalLastModuleSecondToLast ==
    Completed =>
        \A i, j \in DOMAIN input.collected :
            (SortClass(input.collected[i]) = 5 /\ SortClass(input.collected[j]) # 5) =>
                CharCode(output[1].items[j].sort_text[1][1])
                    < CharCode(output[1].items[i].sort_text[1][1])

\* C15 as amended: the prefix of a Global module symbol is greater than the
\* prefix of every other class, and the prefix of a Global symbol that is no
\* module is the one immediately below it: greater than every Local prefix.
C15_ModuleLastGlobalSecondToLast ==
    Completed =>
        \A i, j \in DOMAIN input.collected :
            LET ci == SortClass(input.collected[i])
                cj == SortClass(input.collected[j])
                pi == CharCode(output[1].items[i].sort_text[1][1])
                pj == CharCode(output[1].items[j].sort_text[1][1])
            IN  /\ (ci = 6 /\ cj # 6) => pj < pi
                /\ (ci = 5 /\ cj < 5) => pj < pi
                /\ (ci = 6 /\ cj = 5) => pi = pj + 1

\* a Global module symbol has been listed with a Global function
C15_Witness ==
    /\ Completed
    /\ Len(input.collected) = 2
    /\ input.collected[1].kind = "Module" /\ input.collected[1].scope = GlobalScope
    /\ input.collected[2].kind = "Func" /\ input.collected[2].scope = GlobalScope

(***************************************************************************)
(* Properties of definitions.                                              *)
(***************************************************************************)
\* C16: a definitions request for a known document whose position resolves to
\* no symbol returns a present, empty list of locations, not an absent result.
C16_NoSymbolEmptyList ==
    (/\ call.op = "definitions"
     /\ input.doc_pos_opt # None
     /\ input.located_opt = None)
        => output = Some(<<>>)

(***************************************************************************)
(* Properties of the include directive.                                    *)
(***************************************************************************)
\* the number of positions of a text that hold the character c
Count(text, c) == Cardinality({i \in DOMAIN text : text[i] = c})

\* a text with each slash written as two backslashes
RECURSIVE Expand(_)
Expand(text) ==
    IF text = <<>> THEN <<>>
    ELSE (IF Head(text) = "/" THEN <<"\\", "\\">> ELSE <<Head(text)>>) \o Expand(Tail(text))

\* the text between the quotes of a string literal
Quoted(text) == SubSeq(text, 2, Len(text) - 1)

\* the root is one include directive
OneInclude == Analysed /\ Len(root) = 1 /\ root[1].kind = "Include"

\* C17: an include directive with a string literal records one path, with the
\* span from the directive to the end of the literal: the literal without its
\* quotes, each two backslashes made one slash, in lower case (`"Sub\\Lib.hsp"`
\* gives sub/lib.hsp); a directive with no literal records nothing.
C17_IncludeNormalised ==
    OneInclude =>
        LET tok_opt == root[1].file_path_opt
            includes == analysis[1].includes
        IN  IF tok_opt = None \/ tok_opt[1].kind # "Str"
            THEN includes = <<>>
            ELSE LET literal == Quoted(tok_opt[1].text)
                     path == includes[1].text
                 IN  /\ Len(includes) = 1
                     /\ includes[1].loc = unite(root[1].hash, tok_opt[1].behind)
                     /\ tok_opt[1].text = SubLibText =>
                            path = <<"s", "u", "b", "/", "l", "i", "b", ".", "h", "s", "p">>
                     /\ \A i \in DOMAIN path : path[i] \notin {"\"", "S", "L"}
                     /\ \A i \in 1..(Len(path) - 1) : ~(path[i] = "\\" /\ path[i + 1] = "\\")
                     /\ Len(literal) - Len(path) = Count(path, "/") - Count(literal, "/")
                     /\ Expand(path)
                            = Expand([i \in DOMAIN literal |->
                                        IF literal[i] = "S" THEN "s"
                                        ELSE IF literal[i] = "L" THEN "l" ELSE literal[i]])
                     /\ analysis[1].symbols = <<>>

\* `#include "Sub\\Lib.hsp"` has been analysed
C17_Witness ==
    /\ OneInclude
    /\ root[1].file_path_opt = Some(StrToken(SubLibText, 11))
    /\ Len(analysis[1].includes) = 1

(***************************************************************************)
(* Properties of the walk.                                                 *)
(***************************************************************************)
\* the declarations of the tree in the state whose name token is missing
Unnamed ==
    {s \in AllStmts(root) : /\ s.kind \in DeclKinds \cup {"Module"}
                            /\ s.name_opt = None}

\* the tree with a name token behind the leading token of the statement that
\* starts at `hash`
RECURSIVE WithName(_, _)
WithName(stmts, hash) ==
    IF stmts = <<>> THEN <<>>
    ELSE LET s == Head(stmts)
         IN  <<IF s.hash = hash
               THEN [s EXCEPT !.name_opt = Some(PToken("n", hash + 1))]
               ELSE [s EXCEPT !.stmts = WithName(s.stmts, hash)]>>
             \o WithName(Tail(stmts), hash)

\* C18: a declaration whose name token is missing has no symbol, and the
\* symbols, includes and registry entries of the tree are those of the same
\* tree with the name present, less the declaration's own symbol.
C18_MissingNameOnlyDropsOwnSymbol ==
    Analysed =>
        \A s \in Unnamed :
            LET named == analyze_preproc(AnalysedDoc, WithName(root, s.hash))
                Other(sym) == ~(sym.leader_opt = Some(s.hash) /\ sym.def_sites = <<s.hash + 1>>)
            IN  /\ \A sym \in Symbols : Other(sym)
                /\ analysis[1].symbols = SelectSeq(named.symbols, Other)
                /\ Len(named.symbols) - Len(analysis[1].symbols) \in {0, 1}
                /\ (Len(named.symbols) = Len(analysis[1].symbols))
                       => (s.kind \in {"DefFunc", "LibFunc"} /\ s.onexit)
                /\ analysis[1].includes = named.includes
                /\ analysis[1].modules = named.modules
                /\ analysis[1].deffuncs = named.deffuncs

\* a block without a name, around a block and a label and before another
\* block and a label, has been analysed
C18_Witness ==
    /\ Analysed
    /\ \E s \in Unnamed : /\ Len(s.stmts) = 2
                          /\ s.params # <<>>
                          /\ Len(root) = 3
    /\ Len(analysis[1].symbols) >= 4

\* the ids the analysis in the state gave to a module and to a function: the
\* keys of the registry entries that span the block
ModuleOf(stmt) ==
    CHOOSE k \in DOMAIN analysis[1].modules :
        analysis[1].modules[k].content_loc = unite(stmt.hash, stmt.behind)
DefFuncOf(stmt) ==
    CHOOSE k \in DOMAIN analysis[1].deffuncs :
        analysis[1].deffuncs[k].content_loc = unite(stmt.hash, stmt.behind)

\* the context inside a block that is itself in the context `here`
Inside(stmt, here) ==
    CASE stmt.kind = "Module" -> ALocalScope(Some(ModuleOf(stmt)), None)
      [] stmt.kind = "DefFunc" -> ALocalScope(here.module_opt, Some(DefFuncOf(stmt)))
      [] OTHER -> here

\* the context around the statement that starts at `hash`, by the nesting of
\* the tree alone (a set: empty if there is no such statement)
RECURSIVE Around(_, _, _)
Around(stmts, hash, here) ==
    IF stmts = <<>> THEN {}
    ELSE LET s == Head(stmts)
         IN  (IF s.hash = hash THEN {here} ELSE Around(s.stmts, hash, Inside(s, here)))
                 \cup Around(Tail(stmts), hash, here)

\* the contexts a statement can be walked in
WalkScopes ==
    {ALocalScope(m, f) : m \in {None, Some([doc |-> AnalysedDoc, index |-> 7])},
                         f \in {None, Some(ADefFunc_new(7))}}

\* C19: the walk keeps a stack discipline on its context.  Every symbol is
\* added in the context the nesting of the tree gives: in a module body the
\* module's id and no function, in a function's parameters and body the
\* function's id and the module around it; a statement behind a block is in
\* the context the block was in; and on_stmt returns with the context it was
\* called with.
C19_ContextStack ==
    Analysed =>
        \A s \in AllStmts(root) :
            /\ \A c \in WalkScopes :
                   on_stmt(s, [Ctx_default EXCEPT !.doc = AnalysedDoc, !.scope = c]).scope = c
            /\ \A here \in Around(root, s.hash, ALocalScope(None, None)) :
                 \A sym \in Symbols :
                   /\ (sym.leader_opt = Some(s.hash) /\ sym.kind.tag \notin {"Param", "Module"})
                          => sym.asked.local = here
                   /\ (sym.leader_opt = Some(s.hash) /\ sym.kind.tag \in {"Param", "Module"})
                          => sym.asked.local = Inside(s, here)
                   /\ (/\ s.kind = "Module"
                       /\ \E i \in DOMAIN s.params : /\ s.params[i].name_opt # None
                                                     /\ sym.leader_opt = Some(s.params[i].name_opt[1].loc))
                          => sym.asked.local = Inside(s, here)

\* a function in a module has been analysed: the label in the function was
\* added in the context of both, the label behind the function in the
\* module's, the label behind the module in neither
C19_Witness ==
    /\ Analysed
    /\ Len(root) = 3
    /\ root[1].kind = "Module" /\ Len(root[1].stmts) = 2 /\ root[1].stmts[1].kind = "DefFunc"
    /\ \E a, b, c \in Symbols :
          /\ a.leader_opt = Some(30) /\ a.asked.local.module_opt # None
                                     /\ a.asked.local.deffunc_opt # None
          /\ b.leader_opt = Some(40) /\ b.asked.local.module_opt # None
                                     /\ b.asked.local.deffunc_opt = None
          /\ c.leader_opt = Some(60) /\ c.asked.local = ALocalScope(None, None)

\* the function declarations and the module blocks of the tree in the state
DefFuncStmts == {s \in AllStmts(root) : s.kind = "DefFunc"}
ModuleStmts == {s \in AllStmts(root) : s.kind = "Module"}

\* C20: within one analysis every function declaration (named or not, exit
\* handler or not, at any depth) has an id of its own and every module block
\* has an id of its own, and the registries of functions and of modules hold
\* exactly one entry for each such block, spanning it.
C20_OneIdPerBlock ==
    Analysed =>
        LET deffuncs == analysis[1].deffuncs
            modules == analysis[1].modules
        IN  /\ Cardinality(DOMAIN deffuncs) = Cardinality(DefFuncStmts)
            /\ Cardinality(DOMAIN modules) = Cardinality(ModuleStmts)
            /\ \A s \in DefFuncStmts :
                   Cardinality({k \in DOMAIN deffuncs :
                                   deffuncs[k].content_loc = unite(s.hash, s.behind)}) = 1
            /\ \A s \in ModuleStmts :
                   Cardinality({k \in DOMAIN modules :
                                   /\ modules[k].content_loc = unite(s.hash, s.behind)
                                   /\ modules[k].keyword_loc = s.hash}) = 1

\* an exit handler without a name, around a module, and a second module
\* behind it have been analysed
C20_Witness ==
    /\ Analysed
    /\ root # <<>>
    /\ root[1].kind = "DefFunc" /\ root[1].onexit /\ root[1].name_opt = None
    /\ root[1].stmts # <<>> /\ root[1].stmts[1].kind = "Module"
    /\ Cardinality(ModuleStmts) = 2
    /\ Cardinality(DOMAIN analysis[1].modules) = 2
    /\ Cardinality(DOMAIN analysis[1].deffuncs) = 1

(***************************************************************************)
(* Properties of the signatures.                                           *)
(***************************************************************************)
\* the declared parameters whose type is absent or takes an argument, in the
\* order of the declaration
Arguments(params) == SelectSeq(params, LAMBDA p : p.param_ty_opt \notin {Some("local")})

\* C21: the symbol of every function declaration that is no exit handler has a
\* signature: for a module method it starts with the parameter of the module
\* instance, and it then holds one entry, type and name, for each declared
\* parameter whose type is absent or takes an argument, in declaration order.
C21_SignatureAttached ==
    Analysed =>
        \A s \in AllStmts(root) :
            (s.kind = "DefFunc" /\ ~s.onexit /\ s.name_opt # None) =>
                \A sym \in OwnSymbols(s) :
                    /\ sym.signature_opt # None
                    /\ LET params == sym.signature_opt[1].params
                           args == Arguments(s.params)
                           lead == IF s.fkind \in {"ModFunc", "ModCFunc"} THEN 1 ELSE 0
                       IN  /\ Len(params) = lead + Len(args)
                           /\ lead = 1 => params[1].ty_opt = Some("modvar")
                           /\ \A i \in DOMAIN args :
                                  /\ params[lead + i].ty_opt = args[i].param_ty_opt
                                  /\ params[lead + i].name_opt
                                         = (IF args[i].name_opt = None THEN None
                                            ELSE Some(args[i].name_opt[1].text))

(***************************************************************************)
(* Properties of the poll points.                                          *)
(***************************************************************************)
\* a DocChange that comes from the watcher's side of a poll: a Changed event
\* with text read from a file, or a Closed event
FromPoll(change) ==
    \/ change.kind = "Changed" /\ change.text \in DiskTexts
    \/ change.kind = "Closed"

\* C22: every editor call ends with a poll: when it returns the channel holds
\* none of the events it held, the poll has received all of them in order
\* and, unless one of them is a Rescan, has closed every path they remove and
\* loaded every path they update that is not removed and has no open marker;
\* and the DocChange of the call itself is queued before every DocChange of
\* that poll.
C22_EditorCallEndsWithPoll ==
    [][call'.op \in EditorOps =>
          /\ chan' = <<>>
          /\ file_event_rx => call'.batch = chan
          /\ (file_event_rx /\ ~rescan_of(chan)) =>
                 /\ \A p \in removed_paths_of(chan) : from_file_path(p) \notin DOMAIN uri_to_doc'
                 /\ \A p \in updated_paths_of(chan) \ removed_paths_of(chan) :
                        /\ from_file_path(p) \in DOMAIN uri_to_doc'
                        /\ \/ uri_to_doc'[from_file_path(p)] \in open_docs'
                           \/ DiskLoads(uri_to_doc'[from_file_path(p)]) # {}
          /\ Len(doc_changes') >= Len(doc_changes)
          /\ SubSeq(doc_changes', 1, Len(doc_changes)) = doc_changes
          /\ call'.op \in {"open_doc", "change_doc"} =>
                 /\ Appended # <<>>
                 /\ Appended[1].kind = (IF call'.op = "open_doc" THEN "Opened" ELSE "Changed")
                 /\ Appended[1].text \in EditorTexts
                 /\ \A i \in 2..Len(Appended) : FromPoll(Appended[i])
          /\ call'.op = "close_doc" =>
                 \A i \in DOMAIN Appended : FromPoll(Appended[i])]_vars

\* an editor call has just returned: its poll received two events, and the
\* queue holds the call's DocChange and behind it one of the poll
C22_Witness ==
    /\ call.op \in {"open_doc", "change_doc"}
    /\ Len(call.batch) = 2
    /\ chan = <<>>
    /\ Len(doc_changes) >= 2
    /\ doc_changes[1].text \in EditorTexts
    /\ FromPoll(doc_changes[2])

\* what a poll that receives `batch` without a Rescan does to the tables:
\* every removed path is closed, every updated path that is not removed and
\* has no open marker is loaded
BatchApplied(batch) ==
    ~rescan_of(batch) =>
        /\ \A p \in removed_paths_of(batch) : from_file_path(p) \notin DOMAIN uri_to_doc'
        /\ \A p \in updated_paths_of(batch) \ removed_paths_of(batch) :
               /\ from_file_path(p) \in DOMAIN uri_to_doc'
               /\ \/ uri_to_doc'[from_file_path(p)] \in open_docs'
                  \/ DiskLoads(uri_to_doc'[from_file_path(p)]) # {}

\* C23: a poll that finds the channel disconnected still applies the events
\* it received, and then drops the watcher and the receiver; the receiver
\* never comes back, a later poll changes no table and queues no DocChange,
\* and a later editor call does its own work: open and change queue their
\* DocChange and record the version, close takes the open marker away.
C23_DisconnectedWatcherDegrades ==
    [][/\ (call'.op \in PollingOps /\ file_event_rx /\ ~tx_alive) =>
              /\ call'.batch = chan
              /\ BatchApplied(chan)
              /\ ~file_watcher' /\ ~file_event_rx'
       /\ (phase = "running" /\ ~file_event_rx) => ~file_event_rx'
       /\ (call'.op = "poll" /\ ~file_event_rx) => UNCHANGED docsVars
       /\ (call'.op \in {"open_doc", "change_doc"} /\ ~file_event_rx) =>
              /\ call'.uri \in DOMAIN uri_to_doc'
              /\ Appended = <<[kind |-> IF call'.op = "open_doc" THEN "Opened" ELSE "Changed",
                               doc |-> uri_to_doc'[call'.uri], text |-> "edit"]>>
              /\ doc_versions'[uri_to_doc'[call'.uri]] = call'.version
              /\ call'.op = "open_doc" => uri_to_doc'[call'.uri] \in open_docs'
       /\ (call'.op = "close_doc" /\ ~file_event_rx /\ call'.uri \in DOMAIN uri_to_doc) =>
              /\ uri_to_doc[call'.uri] \notin open_docs'
              /\ Appended = <<>>]_vars

\* a poll has just found the channel disconnected: it loaded the file of the
\* event it received and dropped the watcher
C23_Witness ==
    /\ call.op = "poll"
    /\ call.batch = <<Write(PathA)>>
    /\ ~file_watcher /\ ~file_event_rx
    /\ from_file_path(PathA) \in DOMAIN uri_to_doc
    /\ doc_changes = <<Changed(uri_to_doc[from_file_path(PathA)], "disk")>>

(***************************************************************************)
(* Properties of the store's tables.                                       *)
(***************************************************************************)
\* C24: the map from URIs to documents and the map from documents to URIs are
\* inverse to each other: a URI maps to a document exactly when the document
\* maps to the URI.
C24_MapsInverse ==
    /\ \A u \in DOMAIN uri_to_doc :
           /\ uri_to_doc[u] \in DOMAIN doc_to_uri
           /\ doc_to_uri[uri_to_doc[u]] = u
    /\ \A d \in DOMAIN doc_to_uri :
           /\ doc_to_uri[d] \in DOMAIN uri_to_doc
           /\ uri_to_doc[doc_to_uri[d]] = d

\* a file has been closed by the watcher, and another document is mapped
C24_Witness ==
    /\ \E i \in DOMAIN issued : /\ issued[i].uri # NoUri
                                /\ issued[i].doc \notin DOMAIN doc_to_uri
                                /\ issued[i].uri \notin DOMAIN uri_to_doc
    /\ Cardinality(DOMAIN uri_to_doc) = 1
    /\ Cardinality(DOMAIN doc_to_uri) = 1

\* C25: a poll whose events contain a Rescan scans the directory and applies
\* none of the per-path events: it queues no Closed event and drops no
\* mapping, and what it loads is what the scan finds, each file with the
\* primary extension at most once, whatever paths the events name.
C25_RescanReplacesBatch ==
    [][(call'.op \in PollingOps /\ file_event_rx /\ rescan_of(chan)) =>
          /\ call'.batch = chan
          /\ \A i \in DOMAIN Appended : Appended[i].kind # "Closed"
          /\ \A u \in DOMAIN uri_to_doc : u \in DOMAIN uri_to_doc' /\ uri_to_doc'[u] = uri_to_doc[u]
          /\ \A p \in TreePathSet :
                 extension(p) # "hsp" =>
                     (from_file_path(p) \in DOMAIN uri_to_doc'
                          => from_file_path(p) \in DOMAIN uri_to_doc)
          /\ \A d \in DOMAIN doc_to_uri' :
                 /\ Cardinality(DiskLoads(d)) <= 1
                 /\ DiskLoads(d) # {} =>
                        /\ extension(to_file_path(doc_to_uri'[d])) = "hsp"
                        /\ d \notin open_docs']_vars

\* a poll has just received a rename of a.hsp to c.as and a Rescan: it loaded
\* a.hsp through the scan, closed nothing and did not load c.as
C25_Witness ==
    /\ call.op = "poll"
    /\ call.batch = <<Rename(PathA, PathC), Rescan>>
    /\ from_file_path(PathA) \in DOMAIN uri_to_doc
    /\ from_file_path(PathC) \notin DOMAIN uri_to_doc
    /\ doc_changes = <<Changed(uri_to_doc[from_file_path(PathA)], "disk")>>

(***************************************************************************)
(* Properties of the argument parser.                                      *)
(***************************************************************************)
\* every function entered has returned
Parsed == output # None /\ Parser.stack = <<>>

\* the token sequence holds no call with an argument list of its own
NoCall == \A i \in 1..(Len(input) - 1) : ~(input[i] = "Ident" /\ input[i + 1] = "LeftParen")

=============================================================================
